---- MODULE Spec2Model ----
(***************************************************************************)
(* State-machine model of the stock reference-data store of smassist       *)
(* (src/src/smassist/database.py) and of the ingestion script that drives  *)
(* it (src/scripts/build_db.py).                                           *)
(*                                                                         *)
(* Text values are sequences of one-character strings, so that trimming,   *)
(* CSV escaping and CSV parsing are computed character by character.       *)
(* Python's None and SQL NULL are the one value None, which is no          *)
(* character sequence.                                                     *)
(***************************************************************************)
EXTENDS Integers, Sequences, FiniteSets, TLC

VARIABLES
    db,         \* the tables as the open connection sees them; a table with an
                \* AUTOINCREMENT key is a sequence of rows, the key its position
    disk,       \* the tables as last committed
    files,      \* the snapshot directory: the content of each snapshot file
    net,        \* what the two feed URLs serve
    clock,      \* the wall clock read by utc_now_str()
    main,       \* the ingestion script: its position and its local variables
    call,       \* the last API call: its argument, its result, and whether it
                \* repeats the argument of the call before it
    hist,       \* log of the calls of a scripted session (SpecScenario only)
    fresh       \* a second database file, rebuilt from the snapshot directory:
                \* <<>> while it does not exist, else <<its tables>>

vars == <<db, disk, files, net, clock, main, call, hist, fresh>>

\* Table stocks.
stocks == db.stocks

----------------------------------------------------------------------------
(* Bounds of the model *)

\* Rows the stocks table may hold (AUTOINCREMENT is unbounded in the program).
MaxStocks == 2
\* Largest value of the wall clock.
MaxClock == 2
\* Calls a scripted session may log.
MaxHist == 3
MaxRuns == 2
MaxFeedLen == 3

----------------------------------------------------------------------------
(* Text *)

None == <<"None">>

Whitespace == {" "}

RECURSIVE LStrip(_)
LStrip(s) ==
    IF s # <<>> /\ Head(s) \in Whitespace THEN LStrip(Tail(s)) ELSE s

RECURSIVE RStrip(_)
RStrip(s) ==
    IF s # <<>> /\ s[Len(s)] \in Whitespace
    THEN RStrip(SubSeq(s, 1, Len(s) - 1))
    ELSE s

\* str.strip()
Strip(s) == RStrip(LStrip(s))

\* Python truthiness of an Optional[str]
Truthy(v) == v # None /\ v # <<>>

\* A variant of _norm that forgets to trim.
Norm_NoStrip(v) ==
    IF v = None THEN None ELSE IF v # <<>> THEN v ELSE None

\* A variant of _norm that keeps a blank string as the empty string.
Norm_KeepsBlank(v) ==
    IF v = None THEN None ELSE Strip(v)

Norm(v) ==
    IF v = None
    THEN None
    ELSE LET s == Strip(v) IN IF s # <<>> THEN s ELSE None

\* SQL COALESCE(a, b)
Coalesce(a, b) == IF a # None THEN a ELSE b

----------------------------------------------------------------------------
(* The stocks table *)

KeyColumns == {"isin", "symbol_nse", "symbol_bse"}
InfoColumns == {"company_name", "nse_series", "bse_scrip_code", "status"}
Columns == KeyColumns \cup InfoColumns

NoId == 0

\* SELECT stock_id FROM stocks WHERE <column> = ? never matches.
StockIdsWhere_NoMatch(rows, column, value) == {}

\* SELECT stock_id FROM stocks WHERE <column> = ?   (NULL equals nothing)
StockIdsWhere(rows, column, value) ==
    IF value = None
    THEN {}
    ELSE {i \in DOMAIN rows : rows[i][column] = value}

\* cursor.fetchone() on a stock_id query: a row, or nothing.
FetchOne(ids) ==
    IF ids = {} THEN NoId ELSE CHOOSE i \in ids : \A j \in ids : i <= j

\* The three partial unique indexes ux_stocks_isin, ux_stocks_symbol_nse and
\* ux_stocks_symbol_bse: among the rows whose value is neither NULL nor '',
\* a value occurs once.
UniqueIndexes(rows) ==
    \A column \in KeyColumns : \A i \in DOMAIN rows :
        LET v == rows[i][column] IN
        (v # None /\ v # <<>>) => Cardinality(StockIdsWhere(rows, column, v)) <= 1

\* A variant of _find_stock_id that tries the NSE symbol before the ISIN.
FindStockId_SymbolFirst(rows, isin, symbol_nse, symbol_bse) ==
    LET byIsin == IF Truthy(isin) THEN FetchOne(StockIdsWhere(rows, "isin", isin)) ELSE NoId
        byNse  == IF Truthy(symbol_nse)
                  THEN FetchOne(StockIdsWhere(rows, "symbol_nse", symbol_nse)) ELSE NoId
        byBse  == IF Truthy(symbol_bse)
                  THEN FetchOne(StockIdsWhere(rows, "symbol_bse", symbol_bse)) ELSE NoId
    IN  IF byNse # NoId THEN byNse
        ELSE IF byIsin # NoId THEN byIsin
        ELSE byBse

\* A variant of _find_stock_id that looks the ISIN up only.
FindStockId_IsinOnly(rows, isin, symbol_nse, symbol_bse) ==
    IF Truthy(isin) THEN FetchOne(StockIdsWhere(rows, "isin", isin)) ELSE NoId

FindStockId(rows, isin, symbol_nse, symbol_bse) ==
    LET byIsin == IF Truthy(isin) THEN FetchOne(StockIdsWhere(rows, "isin", isin)) ELSE NoId
        byNse  == IF Truthy(symbol_nse)
                  THEN FetchOne(StockIdsWhere(rows, "symbol_nse", symbol_nse)) ELSE NoId
        byBse  == IF Truthy(symbol_bse)
                  THEN FetchOne(StockIdsWhere(rows, "symbol_bse", symbol_bse)) ELSE NoId
    IN  IF byIsin # NoId THEN byIsin
        ELSE IF byNse # NoId THEN byNse
        ELSE byBse

\* A variant of _value_owned_by_other that never reports a conflict.
ValueOwnedByOther_Never(rows, column, value, current_stock_id) == FALSE

ValueOwnedByOther(rows, column, value, current_stock_id) ==
    IF ~Truthy(value)
    THEN FALSE
    ELSE (StockIdsWhere(rows, column, value) \ {current_stock_id}) # {}

\* The normalised fields of a StockUpsert.
NormAll(s) == [c \in Columns |-> Norm(s[c])]

\* INSERT INTO stocks(...) VALUES (...): the table with the row appended.
InsertRow(rows, n, now) ==
    Append(rows, [c \in Columns \cup {"updated_utc"} |->
                    IF c = "updated_utc" THEN now ELSE n[c]])

\* A variant of the UPDATE that assigns the supplied values without COALESCE.
UpdateRow_Overwrite(rows, stock_id, w, now) ==
    [rows EXCEPT ![stock_id] =
        [c \in Columns \cup {"updated_utc"} |->
            IF c = "updated_utc" THEN now ELSE w[c]]]

\* UPDATE stocks SET col = COALESCE(?, col), ..., updated_utc = ? WHERE stock_id = ?
UpdateRow(rows, stock_id, w, now) ==
    [rows EXCEPT ![stock_id] =
        [c \in Columns \cup {"updated_utc"} |->
            IF c = "updated_utc" THEN now ELSE Coalesce(w[c], rows[stock_id][c])]]

\* The values upsert_stock passes to the UPDATE: a key owned by another row is
\* replaced by None.
UpdateValues(rows, stock_id, n) ==
    [c \in Columns |->
        IF c \in KeyColumns /\ ValueOwnedByOther(rows, c, n[c], stock_id)
        THEN None
        ELSE n[c]]

NoError == "ok"
IntegrityError == "sqlite3.IntegrityError"

\* A write statement under the unique indexes: applied, or refused with
\* sqlite3.IntegrityError and the table left as it was.
Execute(rows, target, id) ==
    IF UniqueIndexes(target)
    THEN [rows |-> target, ret |-> id, raised |-> NoError]
    ELSE [rows |-> rows, ret |-> NoId, raised |-> IntegrityError]

\* upsert_stock that, on the update path, first takes the keys the candidate
\* supplies away from the other rows that hold them.
UpsertStockResult_TakesKeys(rows, s, now) ==
    LET n == NormAll(s)
        stock_id == FindStockId(rows, n["isin"], n["symbol_nse"], n["symbol_bse"])
        freed == [i \in DOMAIN rows |->
                    [c \in DOMAIN rows[i] |->
                        IF i # stock_id /\ c \in KeyColumns /\ rows[i][c] = n[c]
                        THEN None ELSE rows[i][c]]]
    IN  IF stock_id = NoId
        THEN Execute(rows, InsertRow(rows, n, now), Len(rows) + 1)
        ELSE Execute(rows, UpdateRow(freed, stock_id, n, now), stock_id)

\* upsert_stock(conn, s) on table rows at time now: the table afterwards, the
\* returned stock_id and the exception raised, if any.
UpsertStockResult(rows, s, now) ==
    LET n == NormAll(s)
        stock_id == FindStockId(rows, n["isin"], n["symbol_nse"], n["symbol_bse"])
    IN  IF stock_id = NoId
        THEN Execute(rows, InsertRow(rows, n, now), Len(rows) + 1)
        ELSE Execute(rows, UpdateRow(rows, stock_id, UpdateValues(rows, stock_id, n), now),
                     stock_id)

\* Whether upsert_stock(conn, s) takes the INSERT branch.
Inserts(rows, s) ==
    LET n == NormAll(s)
    IN  FindStockId(rows, n["isin"], n["symbol_nse"], n["symbol_bse"]) = NoId

----------------------------------------------------------------------------
(* Inputs *)

Pad(s) == <<" ">> \o s \o <<" ">>
Blank == <<" ">>

IN001 == <<"I", "N", "0", "0", "1">>
IN002 == <<"I", "N", "0", "0", "2">>
FOO   == <<"F", "O", "O">>
FOO2  == <<"F", "O", "O", "2">>
BAR   == <<"B", "A", "R">>
BAR2  == <<"B", "A", "R", "2">>
FooInc == <<"F", "o", "o", " ", "I", "n", "c">>
BarLtd == <<"B", "a", "r", " ", "L", "t", "d">>
EQ     == <<"E", "Q">>
BE     == <<"B", "E">>
Code5  == <<"5">>
Active == <<"a", "c", "t", "i", "v", "e">>
Delisted == <<"d", "e", "l", "i", "s", "t", "e", "d">>

\* StockUpsert(...) with the fields not named left at their default None.
StockUpsert(isin, symbol_nse, symbol_bse, company_name) ==
    [isin |-> isin, symbol_nse |-> symbol_nse, symbol_bse |-> symbol_bse,
     company_name |-> company_name, nse_series |-> None,
     bse_scrip_code |-> None, status |-> None]

\* Candidates that exercise identity resolution: every key absent or blank,
\* plain, or padded with spaces.
KeyCandidates ==
    {StockUpsert(i, n, b, None) :
        i \in {None, IN001, Pad(IN002)},
        n \in {<<>>, FOO, Pad(FOO2)},
        b \in {Blank, Pad(BAR)}}

\* Candidates that also carry a company name.
NamedCandidates ==
    {StockUpsert(i, n, None, FooInc) :
        i \in {IN001},
        n \in {None, FOO, Pad(FOO2)}}

Candidates == KeyCandidates \cup NamedCandidates

\* The candidates of the scripted session A, B, C of the upsert scenario, and
\* two more.
ScenarioA == StockUpsert(IN001, FOO, None, None)
ScenarioB == StockUpsert(IN001, FOO2, None, None)
ScenarioC == StockUpsert(None, FOO2, None, FooInc)
ScenarioCandidates ==
    {ScenarioA, ScenarioB, ScenarioC,
     StockUpsert(IN002, FOO, None, None), StockUpsert(None, None, BAR, BarLtd)}

\* (company_name, nse_series, bse_scrip_code, status) as a candidate may
\* carry them: absent, blank, supplied, supplied padded with other values, or
\* partly supplied.
InfoProfiles ==
    {<<None, None, None, None>>,
     <<Blank, <<>>, Blank, <<>>>>,
     <<FooInc, EQ, Code5, Active>>,
     <<Pad(BarLtd), BE, Pad(Code5), Delisted>>,
     <<Blank, None, None, Delisted>>}

\* Candidates that exercise the merge of the seven attributes.
FieldCandidates ==
    {[isin |-> k[1], symbol_nse |-> k[2], symbol_bse |-> k[3],
      company_name |-> p[1], nse_series |-> p[2],
      bse_scrip_code |-> p[3], status |-> p[4]] :
        k \in {<<IN001, Blank, None>>, <<None, FOO, None>>,
               <<IN001, FOO, Pad(BAR)>>, <<None, <<>>, BAR>>},
        p \in InfoProfiles}

NoCall == [op |-> "none", arg |-> StockUpsert(None, None, None, None),
           ret |-> NoId, raised |-> NoError, again |-> FALSE]

----------------------------------------------------------------------------
(* The other tables, the snapshot directory, the network, the script *)

\* The database after init_db on a new file: every table empty.
EmptyDb ==
    [stocks |-> <<>>, universes |-> <<>>, membership |-> {},
     runs |-> <<>>, sources |-> {}, snapshots |-> <<>>,
     sectors |-> <<>>, subsectors |-> <<>>]

NoFile == <<"NoFile">>
\* A file whose bytes are not UTF-8 text.
Undecodable == <<"Undecodable">>

NSE_UNIVERSE_CODE == <<"n", "s", "e", "_", "e", "q">>
BSE_UNIVERSE_CODE == <<"b", "s", "e", "_", "e", "q">>

\* os.linesep: "\n" on POSIX, "\r\n" on Windows.
PosixLineSep == <<"\n">>
WindowsLineSep == <<"\r", "\n">>

\* An empty snapshot directory, on a POSIX file system.
NoFiles == [nse |-> NoFile, bse |-> NoFile, linesep |-> PosixLineSep]

\* What a feed URL serves: the rows read_csv_rows yields from the text, and
\* the error that ends the reading ("ok" if none; a download error leaves
\* no rows, a CSV error is raised after the rows before it were yielded).
Unreachable == [rows |-> <<>>, raised |-> "requests.RequestException"]

\* No feed is being served.
NoNet == [nse |-> Unreachable, bse |-> Unreachable]

\* The script is not running.
Idle ==
    [pc |-> "idle", offline |-> FALSE, skip_nse |-> FALSE, skip_bse |-> FALSE,
     run_id |-> 0, status |-> "success", notes |-> <<>>, error |-> "ok",
     source |-> "nse", fetched_utc |-> None, universe_id |-> 0, row_count |-> 0,
     i |-> 1]

\* An INTEGER column holding n (NULL is None).
Integer(n) == <<"int", n>>

\* utc_now_str(): the clock reading as a timestamp text, never empty.
utc_now_str(now) == <<"utc", now>>

\* sha256_text: the digest, taken to be free of collisions.
sha256_text(text) == <<"sha256", text>>

UpperLetters == <<"A", "B", "C", "D", "E", "F", "G", "H", "I", "J", "K", "L", "M",
                  "N", "O", "P", "Q", "R", "S", "T", "U", "V", "W", "X", "Y", "Z">>
LowerLetters == <<"a", "b", "c", "d", "e", "f", "g", "h", "i", "j", "k", "l", "m",
                  "n", "o", "p", "q", "r", "s", "t", "u", "v", "w", "x", "y", "z">>

\* str.lower()
Lower(s) ==
    [k \in DOMAIN s |->
        IF \E j \in DOMAIN UpperLetters : UpperLetters[j] = s[k]
        THEN LowerLetters[CHOOSE j \in DOMAIN UpperLetters : UpperLetters[j] = s[k]]
        ELSE s[k]]

\* A SELECT on universes that ignores the code.
UniverseIdsWhere_AnyCode(universes, universe_code) == DOMAIN universes

\* SELECT universe_id FROM universes WHERE universe_code = ?
UniverseIdsWhere(universes, universe_code) ==
    {i \in DOMAIN universes : universes[i].universe_code = universe_code}

\* ensure_universe that trims the code and keeps its case.
EnsureUniverse_KeepsCase(d, universe_code, description) ==
    LET code == Strip(universe_code)
        ids == UniverseIdsWhere(d.universes, code)
    IN  IF ids # {}
        THEN [db |-> d, ret |-> FetchOne(ids)]
        ELSE [db |-> [d EXCEPT !.universes =
                        Append(@, [universe_code |-> code, description |-> description])],
              ret |-> Len(d.universes) + 1]

\* ensure_universe: get or create by the trimmed, lower-cased code.
EnsureUniverse(d, universe_code, description) ==
    LET code == Lower(Strip(universe_code))
        ids == UniverseIdsWhere(d.universes, code)
    IN  IF ids # {}
        THEN [db |-> d, ret |-> FetchOne(ids)]
        ELSE [db |-> [d EXCEPT !.universes =
                        Append(@, [universe_code |-> code, description |-> description])],
              ret |-> Len(d.universes) + 1]

\* upsert_universe_membership with ON CONFLICT DO NOTHING.
UpsertUniverseMembership_KeepsRow(d, universe_id, stock_id, included, now) ==
    IF \E m \in d.membership : m.universe_id = universe_id /\ m.stock_id = stock_id
    THEN d
    ELSE [d EXCEPT !.membership =
            @ \cup {[universe_id |-> universe_id, stock_id |-> stock_id,
                     included |-> IF included THEN 1 ELSE 0,
                     updated_utc |-> utc_now_str(now)]}]

\* upsert_universe_membership: INSERT ... ON CONFLICT(universe_id, stock_id)
\* DO UPDATE SET included, updated_utc.
UpsertUniverseMembership(d, universe_id, stock_id, included, now) ==
    [d EXCEPT !.membership =
        {m \in @ : ~(m.universe_id = universe_id /\ m.stock_id = stock_id)}
        \cup {[universe_id |-> universe_id, stock_id |-> stock_id,
               included |-> IF included THEN 1 ELSE 0,
               updated_utc |-> utc_now_str(now)]}]

Running == "running"
Success == "success"
Failed == "failed"

\* start_ingest_run: a new row with status 'running'; returns its run_id.
StartIngestRun(d, command, git_sha, now) ==
    [db |-> [d EXCEPT !.runs =
                Append(@, [started_utc |-> utc_now_str(now), finished_utc |-> None,
                           command |-> command, git_sha |-> git_sha,
                           status |-> Running, notes |-> None])],
     ret |-> Len(d.runs) + 1]

\* finish_ingest_run that leaves the status column alone.
FinishIngestRun_KeepsStatus(d, run_id, status, notes, now) ==
    [d EXCEPT !.runs =
        [i \in DOMAIN @ |->
            IF i = run_id
            THEN [@[i] EXCEPT !.finished_utc = utc_now_str(now), !.notes = notes]
            ELSE @[i]]]

\* finish_ingest_run: UPDATE ingest_runs SET finished_utc, status, notes
\* WHERE run_id = ?  (no row matches an unknown run_id).
FinishIngestRun(d, run_id, status, notes, now) ==
    [d EXCEPT !.runs =
        [i \in DOMAIN @ |->
            IF i = run_id
            THEN [@[i] EXCEPT !.finished_utc = utc_now_str(now),
                              !.status = status, !.notes = notes]
            ELSE @[i]]]

\* record_ingest_source that stores the source code as given.
RecordIngestSource_RawCode(d, run_id, source_code, f) ==
    [d EXCEPT !.sources =
        {r \in @ : ~(r.run_id = run_id /\ r.source_code = source_code)}
        \cup {[run_id |-> run_id, source_code |-> source_code, url |-> f.url,
               fetched_utc |-> f.fetched_utc, http_status |-> f.http_status,
               content_sha256 |-> f.content_sha256, row_count |-> f.row_count,
               error |-> f.error]}]

\* record_ingest_source that keeps, on a conflict, the row count and the
\* error the row had when the call supplies none:
\* SET row_count = COALESCE(excluded.row_count, row_count), and so for error.
RecordIngestSource_Merges(d, run_id, source_code, f) ==
    LET code == Lower(Strip(source_code))
        old == {r \in d.sources : r.run_id = run_id /\ r.source_code = code}
        Kept(c) == IF f[c] = None /\ old # {} THEN (CHOOSE r \in old : TRUE)[c] ELSE f[c]
    IN  [d EXCEPT !.sources =
            (@ \ old)
            \cup {[run_id |-> run_id, source_code |-> code, url |-> f.url,
                   fetched_utc |-> f.fetched_utc, http_status |-> f.http_status,
                   content_sha256 |-> f.content_sha256,
                   row_count |-> Kept("row_count"), error |-> Kept("error")]}]

\* record_ingest_source: INSERT ... ON CONFLICT(run_id, source_code) DO UPDATE
\* SET every other column; the source code is trimmed and lower-cased.
RecordIngestSource(d, run_id, source_code, f) ==
    LET code == Lower(Strip(source_code))
    IN  [d EXCEPT !.sources =
            {r \in @ : ~(r.run_id = run_id /\ r.source_code = code)}
            \cup {[run_id |-> run_id, source_code |-> code, url |-> f.url,
                   fetched_utc |-> f.fetched_utc, http_status |-> f.http_status,
                   content_sha256 |-> f.content_sha256, row_count |-> f.row_count,
                   error |-> f.error]}]

----------------------------------------------------------------------------
(* Snapshot export *)

Digits == <<"0", "1", "2", "3", "4", "5", "6", "7", "8", "9">>

\* The characters of the model in code point order, which is the order of
\* SQLite's BINARY collation.
Ascii == <<"\n", " ", "\"", ",">> \o Digits \o UpperLetters \o <<"_">> \o LowerLetters

Ord(c) == CHOOSE i \in DOMAIN Ascii : Ascii[i] = c

RECURSIVE TextLess(_, _)
TextLess(a, b) ==
    IF a = <<>> THEN b # <<>>
    ELSE IF b = <<>> THEN FALSE
    ELSE IF a[1] = b[1] THEN TextLess(Tail(a), Tail(b))
    ELSE Ord(a[1]) < Ord(b[1])

\* ORDER BY COALESCE(s.symbol_nse, s.symbol_bse, s.isin, s.company_name)
OrderKey(row) ==
    Coalesce(row.symbol_nse, Coalesce(row.symbol_bse, Coalesce(row.isin, row.company_name)))

\* Ascending order of the keys: NULL sorts before every text.
KeyLess(k1, k2) ==
    IF k1 = None THEN k2 # None
    ELSE IF k2 = None THEN FALSE
    ELSE TextLess(k1, k2)

\* The join without the test of the included flag.
IncludedMembers_AnyFlag(d, universe_id) ==
    {m.stock_id : m \in {x \in d.membership : x.universe_id = universe_id}}
    \cap DOMAIN d.stocks

\* universe_membership JOIN stocks WHERE universe_id = ? AND included = 1
IncludedMembers(d, universe_id) ==
    {m.stock_id : m \in {x \in d.membership : x.universe_id = universe_id /\ x.included = 1}}
    \cap DOMAIN d.stocks

\* The selected stock ids in the order of the query; rows with equal keys
\* come out in the order of the scan of the primary key (by stock_id).
RECURSIVE OrderBy(_, _)
OrderBy(rows, ids) ==
    IF ids = {} THEN <<>>
    ELSE LET first == CHOOSE i \in ids : \A j \in ids \ {i} :
                          \/ KeyLess(OrderKey(rows[i]), OrderKey(rows[j]))
                          \/ OrderKey(rows[i]) = OrderKey(rows[j]) /\ i < j
         IN  <<first>> \o OrderBy(rows, ids \ {first})

\* r[column] or ""
OrEmpty(v) == IF Truthy(v) THEN v ELSE <<>>

Contains(s, c) == \E k \in DOMAIN s : s[k] = c

\* s.replace(c, " ")
ReplaceBySpace(s, c) == [k \in DOMAIN s |-> IF s[k] = c THEN " " ELSE s[k]]

\* s.replace('"', '""')
RECURSIVE DoubleQuotes(_)
DoubleQuotes(s) ==
    IF s = <<>> THEN <<>>
    ELSE (IF s[1] = "\"" THEN <<"\"", "\"">> ELSE <<s[1]>>) \o DoubleQuotes(Tail(s))

\* The writer quotes a field only when it holds a comma or a quote.
Escaped(s) ==
    IF Contains(s, ",") \/ Contains(s, "\"")
    THEN <<"\"">> \o DoubleQuotes(s) \o <<"\"">>
    ELSE s

\* sep.join(parts)
RECURSIVE Join(_, _)
Join(parts, sep) ==
    IF parts = <<>> THEN <<>>
    ELSE IF Len(parts) = 1 THEN parts[1]
    ELSE parts[1] \o sep \o Join(Tail(parts), sep)

\* The column names of the snapshot file, as text.
ColumnName ==
    [symbol_nse |-> <<"s", "y", "m", "b", "o", "l", "_", "n", "s", "e">>,
     symbol_bse |-> <<"s", "y", "m", "b", "o", "l", "_", "b", "s", "e">>,
     company_name |-> <<"c", "o", "m", "p", "a", "n", "y", "_", "n", "a", "m", "e">>,
     isin |-> <<"i", "s", "i", "n">>,
     nse_series |-> <<"n", "s", "e", "_", "s", "e", "r", "i", "e", "s">>,
     bse_scrip_code |-> <<"b", "s", "e", "_", "s", "c", "r", "i", "p", "_", "c", "o", "d", "e">>,
     status |-> <<"s", "t", "a", "t", "u", "s">>]

SnapshotColumns ==
    <<"symbol_nse", "symbol_bse", "company_name", "isin", "nse_series",
      "bse_scrip_code", "status">>

header ==
    Join([k \in DOMAIN SnapshotColumns |-> ColumnName[SnapshotColumns[k]]], <<",">>)
    \o <<"\n">>

\* One line of the file: only company_name has its line breaks replaced.
SnapshotLine(r) ==
    LET vals == [k \in DOMAIN SnapshotColumns |->
                    IF SnapshotColumns[k] = "company_name"
                    THEN ReplaceBySpace(ReplaceBySpace(OrEmpty(r.company_name), "\n"), "\r")
                    ELSE OrEmpty(r[SnapshotColumns[k]])]
    IN  Join([k \in DOMAIN vals |-> Escaped(vals[k])], <<",">>) \o <<"\n">>

\* "".join(lines)
SnapshotContent(rows, order) ==
    header \o Join([k \in DOMAIN order |-> SnapshotLine(rows[order[k]])], <<>>)

\* Path.write_text: the file is opened in text mode, which writes every
\* "\n" of the text as os.linesep.  The result is the file, read as bytes.
RECURSIVE WriteText(_, _)
WriteText(text, linesep) ==
    IF Len(text) = 0 THEN <<>>
    ELSE IF Len(text) = 1 THEN (IF text[1] = "\n" THEN linesep ELSE text)
    ELSE WriteText(SubSeq(text, 1, Len(text) \div 2), linesep)
         \o WriteText(SubSeq(text, Len(text) \div 2 + 1, Len(text)), linesep)

\* export_universe_snapshot_csv: an unknown code returns 0 and writes
\* nothing; otherwise the file is written and a ticker_snapshots row added.
ExportUniverseSnapshotCsv(d, fs, universe_code, out_path, now) ==
    LET Written(universe_id, n, content) ==
            [db |-> [d EXCEPT !.snapshots =
                        Append(@, [universe_id |-> universe_id,
                                   created_utc |-> utc_now_str(now),
                                   snapshot_path |-> out_path,
                                   row_count |-> Integer(n),
                                   content_sha256 |-> sha256_text(content)])],
             files |-> [fs EXCEPT ![out_path] = WriteText(content, fs.linesep)],
             ret |-> n]
        Write(universe_id, order) ==
            Written(universe_id, Len(order), SnapshotContent(d.stocks, order))
        Select(ids) ==
            IF ids = {}
            THEN [db |-> d, files |-> fs, ret |-> 0]
            ELSE Write(FetchOne(ids), OrderBy(d.stocks, IncludedMembers(d, FetchOne(ids))))
    IN  Select(UniverseIdsWhere(d.universes, Lower(Strip(universe_code))))

----------------------------------------------------------------------------
(* Snapshot import *)

\* Path.read_text: universal newlines, "\r\n" and "\r" are read as "\n".
ReadText(s) ==
    LET kept == SelectSeq([k \in DOMAIN s |-> k],
                          LAMBDA k : ~(s[k] = "\n" /\ k > 1 /\ s[k - 1] = "\r"))
    IN  [j \in DOMAIN kept |-> IF s[kept[j]] = "\r" THEN "\n" ELSE s[kept[j]]]

\* The end of a line as csv.reader sees it, after the characters of the line.
EOL == "EOL"

CsvError == "csv.Error"

\* csv.reader at the start of the text.
ReaderStart ==
    [state |-> "START_RECORD", field |-> <<>>, fields |-> <<>>, records |-> <<>>,
     raised |-> NoError]

\* parse_save_field
SaveField(st, next) ==
    [st EXCEPT !.fields = Append(@, st.field), !.field = <<>>, !.state = next]

\* parse_add_char
AddChar(st, c, next) == [st EXCEPT !.field = Append(@, c), !.state = next]

AfterNewline(c) == IF c = EOL THEN "START_RECORD" ELSE "EAT_CRNL"

\* parse_process_char of csv.reader in the excel dialect: delimiter ',',
\* quotechar '"', doublequote, no escapechar, not strict.
ProcessChar(st, c) ==
    LET newline == c \in {"\n", "\r", EOL}
    IN  IF st.raised # NoError THEN st
        ELSE IF st.state = "START_RECORD" /\ c = EOL THEN st
        ELSE IF st.state = "START_RECORD" /\ newline THEN [st EXCEPT !.state = "EAT_CRNL"]
        ELSE IF st.state \in {"START_RECORD", "START_FIELD"} THEN
            IF newline THEN SaveField(st, AfterNewline(c))
            ELSE IF c = "\"" THEN [st EXCEPT !.state = "IN_QUOTED_FIELD"]
            ELSE IF c = "," THEN SaveField(st, "START_FIELD")
            ELSE AddChar(st, c, "IN_FIELD")
        ELSE IF st.state = "IN_FIELD" THEN
            IF newline THEN SaveField(st, AfterNewline(c))
            ELSE IF c = "," THEN SaveField(st, "START_FIELD")
            ELSE AddChar(st, c, "IN_FIELD")
        ELSE IF st.state = "IN_QUOTED_FIELD" THEN
            IF c = EOL THEN st
            ELSE IF c = "\"" THEN [st EXCEPT !.state = "QUOTE_IN_QUOTED_FIELD"]
            ELSE AddChar(st, c, "IN_QUOTED_FIELD")
        ELSE IF st.state = "QUOTE_IN_QUOTED_FIELD" THEN
            IF c = "\"" THEN AddChar(st, c, "IN_QUOTED_FIELD")
            ELSE IF c = "," THEN SaveField(st, "START_FIELD")
            ELSE IF newline THEN SaveField(st, AfterNewline(c))
            ELSE AddChar(st, c, "IN_FIELD")
        ELSE \* EAT_CRNL
            IF c \in {"\n", "\r"} THEN st
            ELSE IF c = EOL THEN [st EXCEPT !.state = "START_RECORD"]
            ELSE [st EXCEPT !.raised = CsvError]

\* Reader_iternext at the end of a line: the record is returned once the
\* reader is back at START_RECORD (an empty line returns no fields).
EndOfLine(st) ==
    LET Return(e) ==
            IF e.state = "START_RECORD" /\ e.raised = NoError
            THEN [e EXCEPT !.records = Append(@, e.fields), !.fields = <<>>]
            ELSE e
    IN  Return(ProcessChar(st, EOL))

\* Reader_iternext when the lines are exhausted: a pending field is saved
\* and the record returned.
EndOfText(st) ==
    IF st.raised = NoError /\ (st.field # <<>> \/ st.state = "IN_QUOTED_FIELD")
    THEN [st EXCEPT !.records = Append(@, Append(st.fields, st.field)),
                    !.fields = <<>>, !.field = <<>>]
    ELSE st

\* csv.reader over the characters lo..hi of io.StringIO(text), in order:
\* the first half, then the second half from the state the first leaves.
\* The lines end at "\n".
RECURSIVE ReadRange(_, _, _, _)
ReadRange(text, st, lo, hi) ==
    IF st.raised # NoError THEN st
    ELSE IF lo = hi
    THEN IF text[lo] = "\n" \/ lo = Len(text)
         THEN EndOfLine(ProcessChar(st, text[lo]))
         ELSE ProcessChar(st, text[lo])
    ELSE ReadRange(text, ReadRange(text, st, lo, (lo + hi) \div 2),
                   (lo + hi) \div 2 + 1, hi)

CsvReader(text) ==
    IF text = <<>> THEN ReaderStart
    ELSE EndOfText(ReadRange(text, ReaderStart, 1, Len(text)))

\* row.get(name) on a row of read_snapshot_csv: csv.DictReader pairs the
\* first record's names with the values (a missing value is None), then
\* names and values are stripped and blank names dropped; of equal names
\* the last wins.
RowGet(fieldnames, values, name) ==
    LET ks == {k \in DOMAIN fieldnames : Strip(fieldnames[k]) = name}
        last == CHOOSE k \in ks : \A j \in ks : j <= k
    IN  IF ks = {} \/ name = <<>> THEN None
        ELSE IF last <= Len(values) THEN Strip(values[last])
        ELSE None

\* csv.DictReader: the first record is the header, empty records are
\* skipped.
DictRows(records) ==
    IF records = <<>> THEN <<>>
    ELSE SelectSeq(Tail(records), LAMBDA r : r # <<>>)

DecodeError == "UnicodeDecodeError"

\* read_snapshot_csv: a missing file reads as no rows; path.read_text raises
\* on bytes that are not UTF-8.
ReadSnapshotCsv(file) ==
    IF file = NoFile THEN [fieldnames |-> <<>>, rows |-> <<>>, raised |-> NoError]
    ELSE IF file = Undecodable
    THEN [fieldnames |-> <<>>, rows |-> <<>>, raised |-> DecodeError]
    ELSE LET Dict(r) ==
                 [fieldnames |-> IF r.records = <<>> THEN <<>> ELSE r.records[1],
                  rows |-> DictRows(r.records), raised |-> r.raised]
         IN  Dict(CsvReader(ReadText(file)))

\* (row.get(name) or "").strip() or None
Field(fieldnames, values, name) ==
    LET v == Strip(OrEmpty(RowGet(fieldnames, values, name)))
    IN  IF v = <<>> THEN None ELSE v

\* The candidate the importer builds from a snapshot row: the NSE file
\* supplies symbol_nse and nse_series, the BSE file symbol_bse and
\* bse_scrip_code.
SnapshotCandidate(universe_code, fieldnames, values) ==
    LET reads == IF universe_code = NSE_UNIVERSE_CODE
                 THEN {"symbol_nse", "company_name", "isin", "nse_series", "status"}
                 ELSE {"symbol_bse", "company_name", "isin", "bse_scrip_code", "status"}
    IN  [c \in Columns |->
            IF c \in reads THEN Field(fieldnames, values, ColumnName[c]) ELSE None]

\* One pass of a loop body: upsert_stock, then upsert_universe_membership;
\* an error raised by upsert_stock ends the pass.
UpsertMember(d, s, universe_id, now) ==
    LET Member(r) ==
            IF r.raised # NoError THEN [db |-> d, raised |-> r.raised]
            ELSE [db |-> UpsertUniverseMembership([d EXCEPT !.stocks = r.rows],
                                                  universe_id, r.ret, TRUE, now),
                  raised |-> NoError]
    IN  Member(UpsertStockResult(d.stocks, s, now))

RECURSIVE ImportRows(_, _, _, _, _, _)
ImportRows(d, universe_code, universe_id, csv, k, now) ==
    IF k > Len(csv.rows) THEN [db |-> d, raised |-> NoError]
    ELSE LET Rest(r) ==
                 IF r.raised # NoError THEN r
                 ELSE ImportRows(r.db, universe_code, universe_id, csv, k + 1, now)
         IN  Rest(UpsertMember(d, SnapshotCandidate(universe_code, csv.fieldnames, csv.rows[k]),
                               universe_id, now))

\* The half of ingest_from_snapshots for one file: nothing if it is missing.
ImportSnapshot(d, fs, universe_code, path, description, now) ==
    IF fs[path] = NoFile THEN [db |-> d, raised |-> NoError]
    ELSE LET Rows(u, csv) ==
                 IF csv.raised # NoError THEN [db |-> u.db, raised |-> csv.raised]
                 ELSE ImportRows(u.db, universe_code, u.ret, csv, 1, now)
         IN  Rows(EnsureUniverse(d, universe_code, description), ReadSnapshotCsv(fs[path]))

\* ingest_from_snapshots, up to its commit: the NSE file, then the BSE file.
IngestFromSnapshots(d, fs, now) ==
    LET Bse(n) ==
            IF n.raised # NoError THEN n
            ELSE ImportSnapshot(n.db, fs, BSE_UNIVERSE_CODE, "bse",
                                "BSE scrip master (snapshot)", now)
    IN  Bse(ImportSnapshot(d, fs, NSE_UNIVERSE_CODE, "nse", "NSE listed equities (snapshot)", now))


----------------------------------------------------------------------------
(* Live feeds *)

DownloadError == "requests.RequestException"

\* v or None
OrNone(v) == IF v = <<>> THEN None ELSE v

\* The candidate ingest_nse_equity_list builds from a parsed feed row.
NseCandidate(row) ==
    [symbol_nse |-> Strip(OrEmpty(row.SYMBOL)),
     symbol_bse |-> None,
     company_name |-> OrNone(Strip(OrEmpty(row.NAME_OF_COMPANY))),
     isin |-> OrNone(Strip(OrEmpty(row.ISIN_NUMBER))),
     nse_series |-> OrNone(Strip(OrEmpty(row.SERIES))),
     bse_scrip_code |-> None,
     status |-> Active]

\* The rows the NSE loop skips: no symbol, or a series other than EQ.
NseSkips(row) ==
    \/ Strip(OrEmpty(row.SYMBOL)) = <<>>
    \/ Strip(OrEmpty(row.SERIES)) \notin {<<>>, EQ}

\* The candidate ingest_bse_scrip_master builds from a parsed feed row.
BseCandidate(row) ==
    [symbol_nse |-> None,
     symbol_bse |-> OrNone(Strip(OrEmpty(row.Security_Id))),
     company_name |-> OrNone(Strip(OrEmpty(row.Issuer_Name))),
     isin |-> OrNone(Strip(OrEmpty(row.ISIN_No))),
     nse_series |-> None,
     bse_scrip_code |-> OrNone(Strip(OrEmpty(row.Security_Code))),
     status |-> IF Strip(OrEmpty(row.Status)) = <<>> THEN None
                ELSE Lower(Strip(OrEmpty(row.Status)))]

\* The rows the BSE loop skips: neither a security id nor an ISIN.
BseSkips(row) ==
    /\ Strip(OrEmpty(row.Security_Id)) = <<>>
    /\ Strip(OrEmpty(row.ISIN_No)) = <<>>

\* A loop that counts the rows it skips too.
FeedRowStep_CountsSkipped(d, source, row, universe_id, row_count, now) ==
    IF (source = "nse" /\ NseSkips(row)) \/ (source = "bse" /\ BseSkips(row))
    THEN [db |-> d, row_count |-> row_count + 1, raised |-> NoError]
    ELSE LET Counted(r) == [db |-> r.db, row_count |-> row_count + 1, raised |-> r.raised]
         IN  Counted(UpsertMember(d, IF source = "nse" THEN NseCandidate(row)
                                     ELSE BseCandidate(row),
                                  universe_id, now))

\* One iteration of the loop of a live feed over a parsed row.
FeedRowStep(d, source, row, universe_id, row_count, now) ==
    IF (source = "nse" /\ NseSkips(row)) \/ (source = "bse" /\ BseSkips(row))
    THEN [db |-> d, row_count |-> row_count, raised |-> NoError]
    ELSE LET Counted(r) == [db |-> r.db, row_count |-> row_count + 1, raised |-> r.raised]
         IN  Counted(UpsertMember(d, IF source = "nse" THEN NseCandidate(row)
                                     ELSE BseCandidate(row),
                                  universe_id, now))

SourceCode == [nse |-> <<"n", "s", "e", "_", "e", "q", "u", "i", "t", "y", "_", "l">>,
               bse |-> <<"b", "s", "e", "_", "s", "c", "r", "i", "p", "_", "m", "a", "s", "t", "e", "r">>]

SourceUrl == [nse |-> "NSE_EQUITY_L_URL", bse |-> "BSE_SCRIP_MASTER_URL"]

UniverseCode == [nse |-> NSE_UNIVERSE_CODE, bse |-> BSE_UNIVERSE_CODE]

UniverseDescription ==
    [nse |-> "NSE listed equities (EQUITY_L.csv, series=EQ)",
     bse |-> "BSE scrip master (segment=Equity)"]

\* The provenance a live feed records, before the loop (row_count None)
\* and after it.
Provenance(source, served, fetched_utc, row_count) ==
    [url |-> SourceUrl[source], fetched_utc |-> fetched_utc, http_status |-> Integer(200),
     content_sha256 |-> sha256_text(served), row_count |-> row_count, error |-> None]

\* A live feed that starts by clearing the memberships of its universe.
FeedBegin_ClearsMembers(d, source, served, run_id, now) ==
    LET Cleared(u) ==
            [db |-> [u.db EXCEPT !.membership = {m \in @ : m.universe_id # u.ret}],
             ret |-> u.ret]
    IN  Cleared(EnsureUniverse(
            RecordIngestSource(d, run_id, SourceCode[source],
                               Provenance(source, served, utc_now_str(now), None)),
            UniverseCode[source], UniverseDescription[source]))

\* A live feed up to its loop: the source is recorded and the universe
\* ensured.
FeedBegin(d, source, served, run_id, now) ==
    EnsureUniverse(
        RecordIngestSource(d, run_id, SourceCode[source],
                           Provenance(source, served, utc_now_str(now), None)),
        UniverseCode[source], UniverseDescription[source])


----------------------------------------------------------------------------
(* Behaviour *)

Init ==
    /\ db = EmptyDb
    /\ disk = EmptyDb
    /\ files = NoFiles
    /\ net = NoNet
    /\ clock = 1
    /\ main = Idle
    /\ call = NoCall
    /\ hist = <<>>
    /\ fresh = <<>>

\* One call upsert_stock(conn, s); utc_now_str() reads the clock.
UpsertEffect(s) ==
    /\ Inserts(stocks, s) => Len(stocks) < MaxStocks
    /\ \E r \in {UpsertStockResult(stocks, s, clock)} :
        /\ db' = [db EXCEPT !.stocks = r.rows]
        /\ call' = [op |-> "upsert_stock", arg |-> s, ret |-> r.ret,
                    raised |-> r.raised,
                    again |-> (call.op = "upsert_stock" /\ call.arg = s)]
    /\ UNCHANGED <<disk, files, net, clock, main, fresh>>

UpsertStock(s) ==
    /\ UpsertEffect(s)
    /\ UNCHANGED hist

Next ==
    \E s \in Candidates : UpsertStock(s)

\* Arbitrary sessions of upsert_stock calls on an initially empty table.
Spec == Init /\ [][Next]_vars

NextFields ==
    \E s \in FieldCandidates : UpsertStock(s)

\* Sessions of upsert_stock calls whose candidates vary all seven attributes.
SpecFields == Init /\ [][NextFields]_vars

\* A call of a scripted session: the call and its result are logged.
ScriptedUpsert(s) ==
    /\ Len(hist) < MaxHist
    /\ UpsertEffect(s)
    /\ hist' = Append(hist, [arg |-> s, ret |-> call'.ret])

NextScenario ==
    \E s \in ScenarioCandidates : ScriptedUpsert(s)

\* Sessions of at most MaxHist logged calls on an initially empty table.
SpecScenario == Init /\ [][NextScenario]_vars

----------------------------------------------------------------------------
(* The ingestion script, build_db.main *)

\* Time passes: the clock, read to the second, is let advance between runs
\* and before a run is closed.
Tick ==
    /\ clock < MaxClock
    /\ main.pc \in {"idle", "finish"}
    /\ clock' = clock + 1
    /\ UNCHANGED <<db, disk, files, net, main, call, hist, fresh>>

\* main up to the try block: the database is opened, the run started and
\* the mapping file ingested, which commits if the file has rows.  (The
\* taxonomy document of these runs holds no sector, and the mapping table
\* is not represented; their commits are.)
MainStart(offline, skip_nse, skip_bse, mapping) ==
    /\ main.pc = "idle"
    /\ Len(db.runs) < MaxRuns
    /\ \E r \in {StartIngestRun(db, <<offline, skip_nse, skip_bse>>, None, clock)} :
           /\ db' = r.db
           /\ disk' = IF mapping THEN r.db ELSE disk
           /\ main' = [Idle EXCEPT !.pc = IF offline THEN "offline" ELSE "nse",
                                   !.offline = offline, !.skip_nse = skip_nse,
                                   !.skip_bse = skip_bse, !.run_id = r.ret]
    /\ UNCHANGED <<files, net, clock, call, hist, fresh>>

\* A try block that goes on to the BSE feed when a step raises.
Raise_GoesOn(error) == main' = [main EXCEPT !.pc = "bse", !.error = error]

\* The try block raised: control passes to the exception handler.
Raise(error) == main' = [main EXCEPT !.pc = "except", !.error = error]

\* --offline: the rebuild from the snapshots, with its commit.
MainOffline ==
    /\ main.pc = "offline"
    /\ \E r \in {IngestFromSnapshots(db, files, clock)} :
        /\ db' = r.db
        /\ IF r.raised # NoError
           THEN Raise(r.raised) /\ UNCHANGED disk
           ELSE /\ disk' = r.db
                /\ main' = [main EXCEPT !.pc = "export",
                                        !.notes = Append(@, <<"offline rebuild from snapshots">>)]
    /\ UNCHANGED <<files, net, clock, call, hist, fresh>>

\* A feed the flags skip.
SkipFeed(source) ==
    /\ main.pc = source
    /\ IF source = "nse" THEN main.skip_nse ELSE main.skip_bse
    /\ main' = [main EXCEPT !.pc = IF source = "nse" THEN "bse" ELSE "export"]
    /\ UNCHANGED <<db, disk, files, net, clock, call, hist, fresh>>

\* The start of ingest_nse_equity_list / ingest_bse_scrip_master: the
\* download, which may fail, then the first provenance record and the
\* universe.
FetchFeed(source) ==
    /\ main.pc = source
    /\ ~(IF source = "nse" THEN main.skip_nse ELSE main.skip_bse)
    /\ IF net[source].raised = DownloadError
       THEN Raise(DownloadError) /\ UNCHANGED db
       ELSE \E u \in {FeedBegin(db, source, net[source], main.run_id, clock)} :
                /\ db' = u.db
                /\ main' = [main EXCEPT !.pc = "rows", !.source = source,
                                        !.fetched_utc = utc_now_str(clock),
                                        !.universe_id = u.ret, !.row_count = 0, !.i = 1]
    /\ UNCHANGED <<disk, files, net, clock, call, hist, fresh>>

\* One iteration of the loop over the rows of the feed.
FeedRow ==
    /\ main.pc = "rows"
    /\ main.i <= Len(net[main.source].rows)
    /\ \E r \in {FeedRowStep(db, main.source, net[main.source].rows[main.i],
                             main.universe_id, main.row_count, clock)} :
        /\ db' = r.db
        /\ IF r.raised # NoError
           THEN Raise(r.raised)
           ELSE main' = [main EXCEPT !.i = @ + 1, !.row_count = r.row_count]
    /\ UNCHANGED <<disk, files, net, clock, call, hist, fresh>>

\* The end of the rows: the reader raises if the text is malformed;
\* otherwise the loop's writes are committed and the provenance record is
\* rewritten with the row count.
FeedEnd ==
    /\ main.pc = "rows"
    /\ main.i > Len(net[main.source].rows)
    /\ IF net[main.source].raised # NoError
       THEN Raise(net[main.source].raised) /\ UNCHANGED <<db, disk>>
       ELSE /\ disk' = db
            /\ db' = RecordIngestSource(db, main.run_id, SourceCode[main.source],
                        Provenance(main.source, net[main.source], main.fetched_utc,
                                   Integer(main.row_count)))
            /\ main' = [main EXCEPT !.pc = IF main.source = "nse" THEN "bse" ELSE "export"]
    /\ UNCHANGED <<files, net, clock, call, hist, fresh>>

\* The exception handler of main: the run is marked failed and rebuilt
\* from the snapshots, with the commit of the rebuild; an error of the
\* rebuild leaves main: the connection rolls back and finish_ingest_run is
\* not called.
MainExcept ==
    /\ main.pc = "except"
    /\ \E r \in {IngestFromSnapshots(db, files, clock)} :
        IF r.raised # NoError
        THEN /\ db' = disk
             /\ main' = Idle
             /\ call' = [op |-> "main",
                         arg |-> [run_id |-> main.run_id, error |-> main.error],
                         ret |-> NoId, raised |-> r.raised, again |-> FALSE]
             /\ UNCHANGED disk
        ELSE /\ db' = r.db
             /\ disk' = r.db
             /\ main' = [main EXCEPT !.pc = "export", !.status = Failed,
                                     !.notes = @ \o <<<<"ingest failed", main.error>>,
                                                       <<"fallback rebuild from snapshots">>>>]
             /\ UNCHANGED call
    /\ UNCHANGED <<files, net, clock, hist, fresh>>

\* Both universes are exported to the snapshot directory.
MainExport ==
    /\ main.pc = "export"
    /\ \E n \in {ExportUniverseSnapshotCsv(db, files, NSE_UNIVERSE_CODE, "nse", clock)} :
       \E b \in {ExportUniverseSnapshotCsv(n.db, n.files, BSE_UNIVERSE_CODE, "bse", clock)} :
           /\ db' = b.db
           /\ files' = b.files
           /\ main' = [main EXCEPT !.pc = "finish",
                                   !.notes = Append(@, <<"snapshot export", n.ret, b.ret>>)]
    /\ UNCHANGED <<disk, net, clock, call, hist, fresh>>

\* The run is closed and everything committed; main returns.
MainFinish ==
    /\ main.pc = "finish"
    /\ \E notes \in {IF main.notes # <<>> THEN main.notes ELSE None} :
       \E d \in {FinishIngestRun(db, main.run_id, main.status, notes, clock)} :
           /\ db' = d
           /\ disk' = d
           /\ call' = [op |-> "finish_ingest_run",
                       arg |-> [run_id |-> main.run_id, status |-> main.status,
                                notes |-> notes, error |-> main.error],
                       ret |-> NoId, raised |-> NoError, again |-> FALSE]
    /\ main' = Idle
    /\ UNCHANGED <<files, net, clock, hist, fresh>>

\* The snapshots of the store are exported and a new database file is
\* rebuilt from them: export_universe_snapshot_csv for both universes, then
\* ingest_from_snapshots on the new file.
RoundTrip ==
    /\ main.pc = "idle"
    /\ fresh = <<>>
    /\ \E n \in {ExportUniverseSnapshotCsv(db, files, NSE_UNIVERSE_CODE, "nse", clock)} :
       \E b \in {ExportUniverseSnapshotCsv(n.db, n.files, BSE_UNIVERSE_CODE, "bse", clock)} :
           /\ db' = b.db
           /\ disk' = b.db
           /\ files' = b.files
           /\ fresh' = <<IngestFromSnapshots(EmptyDb, b.files, clock).db>>
    /\ UNCHANGED <<net, clock, main, call, hist>>

\* The process is killed: what was not committed is rolled back, the
\* files written stay.
Kill ==
    /\ main.pc # "idle"
    /\ db' = disk
    /\ main' = Idle
    /\ UNCHANGED <<disk, files, net, clock, call, hist, fresh>>

----------------------------------------------------------------------------
(* Re-invocation on an unchanged NSE feed, SpecReinvoke *)

\* A parsed row of EQUITY_L.csv.
NseRow(symbol, isin, series) ==
    [SYMBOL |-> symbol, NAME_OF_COMPANY |-> None, SERIES |-> series, ISIN_NUMBER |-> isin]

\* The sequences over S of length at most n.
SeqsUpTo(S, n) == UNION {[1..k -> S] : k \in 0..n}

\* Rows with a symbol and any ISIN, and the two kinds of row the loop skips.
ReinvokeRows ==
    {NseRow(s, i, EQ) : s \in {FOO, FOO2}, i \in {<<>>, IN001, IN002}}
    \cup {NseRow(<<>>, IN001, EQ), NseRow(FOO, IN002, BE)}

Served(rows) == [rows |-> rows, raised |-> NoError]

InitReinvoke ==
    /\ db = EmptyDb
    /\ disk = EmptyDb
    /\ files = NoFiles
    /\ net \in {[nse |-> Served(f), bse |-> Unreachable] : f \in SeqsUpTo(ReinvokeRows, MaxFeedLen)}
    /\ clock = 1
    /\ main = Idle
    /\ call = NoCall
    /\ hist = <<>>
    /\ fresh = <<>>

NextReinvoke ==
    \/ \E mapping \in BOOLEAN : MainStart(FALSE, FALSE, TRUE, mapping)
    \/ FetchFeed("nse")
    \/ FeedRow
    \/ FeedEnd
    \/ SkipFeed("bse")
    \/ MainExport
    \/ MainFinish
    \/ Kill

SpecReinvoke == InitReinvoke /\ [][NextReinvoke]_vars

\* The loop of a live feed from row k on.
RECURSIVE FeedPass(_, _, _, _, _, _)
FeedPass(d, source, rows, k, universe_id, now) ==
    IF k > Len(rows) THEN d
    ELSE FeedPass(FeedRowStep(d, source, rows[k], universe_id, 0, now).db,
                  source, rows, k + 1, universe_id, now)

\* The store a single complete pass over the NSE feed leaves, from an
\* empty store.
SinglePass ==
    LET Loop(u) == FeedPass(u.db, "nse", net.nse.rows, 1, u.ret, clock)
    IN  Loop(FeedBegin(StartIngestRun(EmptyDb, None, None, clock).db, "nse", net.nse, 1, clock))

\* The identifying keys of every stock, by stock_id.
KeysById(rows) == [i \in DOMAIN rows |-> <<rows[i].isin, rows[i].symbol_nse, rows[i].symbol_bse>>]

\* C8: whenever a pass over the feed has completed, on an empty store or on
\* the store an earlier pass over the same feed left (complete, or killed
\* in the loop), the store has the Stock rows, with the keys, that a
\* single complete pass leaves: no additional row, no other keys.
C8_ReinvocationSafe ==
    (main.pc = "bse") => KeysById(db.stocks) = KeysById(SinglePass.stocks)

----------------------------------------------------------------------------
(* Orchestrated runs on feeds that may fail, SpecMain *)

\* A parsed row of the BSE scrip master.
BseRow(security_id, isin, status) ==
    [Security_Code |-> Code5, Issuer_Name |-> None, Security_Id |-> security_id,
     Status |-> status, ISIN_No |-> isin]

\* A feed whose text is malformed after the given rows.
Malformed(rows) == [rows |-> rows, raised |-> CsvError]

MainNseFeeds ==
    {Unreachable, Served(<<NseRow(FOO, IN001, EQ)>>), Malformed(<<NseRow(FOO, IN001, EQ)>>)}

MainBseFeeds ==
    {Unreachable, Served(<<BseRow(BAR, IN001, Pad(Active))>>)}

\* The flags --offline, --skip-nse, --skip-bse: an offline run, and the live
\* runs with any feed skipped.
MainArgs == {<<TRUE, FALSE, FALSE>>} \cup {<<FALSE, n, b>> : n, b \in BOOLEAN}

InitMain ==
    /\ db = EmptyDb
    /\ disk = EmptyDb
    /\ files = NoFiles
    /\ net \in {[nse |-> n, bse |-> b] : n \in MainNseFeeds, b \in MainBseFeeds}
    /\ clock = 1
    /\ main = Idle
    /\ call = NoCall
    /\ hist = <<>>
    /\ fresh = <<>>

NextMain ==
    \/ \E a \in MainArgs, mapping \in BOOLEAN : MainStart(a[1], a[2], a[3], mapping)
    \/ MainOffline
    \/ \E source \in {"nse", "bse"} : SkipFeed(source) \/ FetchFeed(source)
    \/ FeedRow
    \/ FeedEnd
    \/ MainExcept
    \/ MainExport
    \/ MainFinish
    \/ Kill
    \/ Tick

SpecMain == InitMain /\ [][NextMain]_vars

\* C10: after a finish_ingest_run call on an existing run, the run has a
\* finish timestamp, which is a non-empty text, and its status is success
\* or failed - not running, and no other value.
C10_FinishedRun ==
    (call.op = "finish_ingest_run" /\ call.arg.run_id \in DOMAIN db.runs) =>
        LET run == db.runs[call.arg.run_id]
        IN  /\ run.finished_utc # None
            /\ run.finished_utc # <<>>
            /\ run.status \in {Success, Failed}

\* A run closed as failed, after a feed raised, and one closed as success.
C10_Witness ==
    /\ call.op = "finish_ingest_run"
    /\ Len(db.runs) = 2
    /\ db.runs[1].status = Failed
    /\ db.runs[2].status = Success
    /\ db.runs[2].finished_utc = utc_now_str(MaxClock)

----------------------------------------------------------------------------
(* Export and rebuild, SpecRoundTrip *)

\* Keys with the characters a CSV field may hold: a comma and a quote, a
\* line break.
CommaQuote == <<"F", ",", "\"">>
TwoLines == <<"I", "\n", "2">>

RoundTripNseRows ==
    {NseRow(s, i, EQ) : s \in {FOO, CommaQuote}, i \in {<<>>, IN001, TwoLines}}

RoundTripBseRows ==
    {BseRow(BAR, <<>>, Active), BseRow(BAR, IN001, Active), BseRow(<<>>, IN001, Active)}

InitRoundTrip ==
    /\ db = EmptyDb
    /\ disk = EmptyDb
    /\ files = NoFiles
    /\ net \in {[nse |-> Served(n), bse |-> Served(b)] :
                    n \in SeqsUpTo(RoundTripNseRows, MaxFeedLen - 1),
                    b \in SeqsUpTo(RoundTripBseRows, 1)}
    /\ clock = 1
    /\ main = Idle
    /\ call = NoCall
    /\ hist = <<>>
    /\ fresh = <<>>

NextRoundTrip ==
    \/ \E skip_nse, skip_bse \in BOOLEAN : MainStart(FALSE, skip_nse, skip_bse, FALSE)
    \/ \E source \in {"nse", "bse"} : SkipFeed(source) \/ FetchFeed(source)
    \/ FeedRow
    \/ FeedEnd
    \/ MainExport
    \/ MainFinish
    \/ RoundTrip

SpecRoundTrip == InitRoundTrip /\ [][NextRoundTrip]_vars

\* The (NSE symbol, BSE symbol, ISIN) of a stock row.
KeyTuple(row) == <<row.symbol_nse, row.symbol_bse, row.isin>>

\* The tuples of the included members of the two exported universes.
MemberTuples(d) ==
    {KeyTuple(d.stocks[i]) :
        i \in UNION {IncludedMembers(d, u) :
                        u \in UniverseIdsWhere(d.universes, NSE_UNIVERSE_CODE)
                              \cup UniverseIdsWhere(d.universes, BSE_UNIVERSE_CODE)}}

\* The tuples of all the stock rows.
StockTuples(d) == {KeyTuple(d.stocks[i]) : i \in DOMAIN d.stocks}

\* C9: exporting the universe snapshots of a store and importing them with
\* ingest_from_snapshots into a fresh empty store yields Stock rows whose
\* set of (NSE symbol, BSE symbol, ISIN) tuples is the set of tuples of the
\* exported universe members.
C9_RoundTrip ==
    [][RoundTrip => StockTuples(fresh'[1]) = MemberTuples(db)]_vars

\* The round trip does hold for the stores none of whose keys holds a line
\* break: the writer leaves a field with a line break unquoted, and the
\* reader then ends the row there.
RoundTripOneLine ==
    [][(RoundTrip /\ \A t \in MemberTuples(db) : \A k \in 1..3 : ~Contains(t[k], "\n"))
        => StockTuples(fresh'[1]) = MemberTuples(db)]_vars

----------------------------------------------------------------------------
(* Properties of the upsert engine, checked under Spec *)

\* The rows of the table that hold value in column, value being the
\* normalised, non-blank value of a candidate.
Owners(rows, column, value) ==
    {i \in DOMAIN rows : Truthy(value) /\ rows[i][column] = value}

\* The candidate carries at least one identifying key once normalised.
HasKey(s) == \E c \in KeyColumns : Truthy(Norm(s[c]))

\* C1: in every reachable state no two Stock rows share a non-empty ISIN, a
\* non-empty NSE symbol or a non-empty BSE symbol.
C1_UniquenessPreserved ==
    \A c \in KeyColumns : \A i \in DOMAIN stocks : \A j \in DOMAIN stocks :
        (i # j /\ Truthy(stocks[i][c])) => stocks[i][c] # stocks[j][c]

\* C1 witness: an upsert has just resolved to one row while another row owns
\* the BSE symbol the candidate supplied.
C1_Witness ==
    /\ call.op = "upsert_stock"
    /\ call.ret \in DOMAIN stocks
    /\ Owners(stocks, "symbol_bse", Norm(call.arg["symbol_bse"])) \ {call.ret} # {}

\* C2 as stated: upserting the same candidate twice in a row returns the same
\* id both times and the second call adds no row, for any candidate.
C2_Original ==
    [][(call.op = "upsert_stock" /\ call'.op = "upsert_stock" /\ call'.arg = call.arg)
        => (call'.ret = call.ret /\ Len(stocks') = Len(stocks))]_vars

\* C2 amended: upserting twice in a row the same candidate that carries at
\* least one non-blank identifying key returns the same id both times, and
\* the second call adds no row.
C2_Idempotence ==
    [][(/\ call.op = "upsert_stock"
        /\ call'.op = "upsert_stock"
        /\ call'.arg = call.arg
        /\ HasKey(call.arg))
        => (/\ call'.ret = call.ret
            /\ call'.ret \in DOMAIN stocks
            /\ Len(stocks') = Len(stocks))]_vars

\* C2 witness: a keyed candidate has been upserted for the second time in a
\* row, padded with spaces, into a table that holds another row too.
C2_Witness ==
    /\ call.again
    /\ HasKey(call.arg)
    /\ call.arg["isin"] = Pad(IN002)
    /\ call.ret \in DOMAIN stocks
    /\ Len(stocks) = 2

\* C3: when the candidate's ISIN matches entity e1 and its NSE symbol is owned
\* by another entity e2, the call returns e1, e1 keeps that ISIN and its
\* previous NSE symbol, e1's company name becomes the candidate's if one is
\* supplied, and e2 still owns the NSE symbol.
C3_IdentityPriority ==
    [][\A e1 \in DOMAIN stocks : \A e2 \in DOMAIN stocks :
        LET n == NormAll(call'.arg) IN
        (/\ call'.op = "upsert_stock"
         /\ e1 # e2
         /\ e1 \in Owners(stocks, "isin", n["isin"])
         /\ e2 \in Owners(stocks, "symbol_nse", n["symbol_nse"]))
        => (/\ call'.ret = e1
            /\ stocks'[e1]["isin"] = n["isin"]
            /\ stocks'[e1]["symbol_nse"] = stocks[e1]["symbol_nse"]
            /\ stocks'[e1]["symbol_nse"] # n["symbol_nse"]
            /\ (n["company_name"] # None
                    => stocks'[e1]["company_name"] = n["company_name"])
            /\ stocks'[e2]["symbol_nse"] = n["symbol_nse"])]_vars

\* C3 witness: the last call carried a company name, returned the row that
\* holds its ISIN, and another row holds its NSE symbol.
C3_Witness ==
    /\ call.op = "upsert_stock"
    /\ call.ret \in Owners(stocks, "isin", Norm(call.arg["isin"]))
    /\ Owners(stocks, "symbol_nse", Norm(call.arg["symbol_nse"])) \ {call.ret} # {}
    /\ Norm(call.arg["company_name"]) # None
    /\ stocks[call.ret]["company_name"] = FooInc

\* C5: upsert_stock never ends in a uniqueness-violation error: it returns
\* the id of a row that exists afterwards, a new id when no supplied key
\* matched a row and the id of a matched row otherwise.
C5_NeverRaises ==
    [][call'.op = "upsert_stock" =>
        LET n == NormAll(call'.arg)
            matched == UNION {Owners(stocks, c, n[c]) : c \in KeyColumns}
        IN  /\ call'.raised = NoError
            /\ call'.ret \in DOMAIN stocks'
            /\ matched = {} => (/\ call'.ret = Len(stocks) + 1
                                /\ Len(stocks') = Len(stocks) + 1)
            /\ matched # {} => (/\ call'.ret \in matched
                                /\ Len(stocks') = Len(stocks))]_vars

\* C5 witness: a call completed although its ISIN and its NSE symbol belong to
\* two different rows.
C5_Witness ==
    /\ call.op = "upsert_stock"
    /\ call.raised = NoError
    /\ call.ret \in Owners(stocks, "isin", Norm(call.arg["isin"]))
    /\ Owners(stocks, "symbol_nse", Norm(call.arg["symbol_nse"])) \ {call.ret} # {}

\* C7: identity resolution has a fixed priority: a row matching the ISIN is
\* returned whatever the symbols match; failing that a row matching the NSE
\* symbol; failing that a row matching the BSE symbol; and no row is found
\* (a new one is inserted) exactly when no supplied non-blank key matches.
C7_FixedPriority ==
    [][call'.op = "upsert_stock" =>
        LET n == NormAll(call'.arg)
            byIsin == Owners(stocks, "isin", n["isin"])
            byNse  == Owners(stocks, "symbol_nse", n["symbol_nse"])
            byBse  == Owners(stocks, "symbol_bse", n["symbol_bse"])
        IN  /\ byIsin # {} => call'.ret \in byIsin
            /\ (byIsin = {} /\ byNse # {}) => call'.ret \in byNse
            /\ (byIsin = {} /\ byNse = {} /\ byBse # {}) => call'.ret \in byBse
            /\ (byIsin = {} /\ byNse = {} /\ byBse = {})
                    <=> call'.ret \notin DOMAIN stocks]_vars

\* C7 witness: the last call carried no ISIN, returned the row that holds its
\* NSE symbol, and another row holds its BSE symbol.
C7_Witness ==
    /\ call.op = "upsert_stock"
    /\ Norm(call.arg["isin"]) = None
    /\ call.ret \in Owners(stocks, "symbol_nse", Norm(call.arg["symbol_nse"]))
    /\ Owners(stocks, "symbol_bse", Norm(call.arg["symbol_bse"])) \ {call.ret} # {}

----------------------------------------------------------------------------
(* The upsert scenario, checked under SpecScenario *)

Args(h) == [k \in DOMAIN h |-> h[k].arg]

\* C4: from the empty table, upserting A = {isin IN001, symbol_nse FOO}, then
\* B = {isin IN001, symbol_nse FOO2}, then C = {symbol_nse FOO2, company_name
\* Foo Inc} returns the same id for the three calls and leaves one row, which
\* holds FOO2 after B and ends with isin IN001, symbol_nse FOO2 and
\* company_name Foo Inc.
C4_Scenario ==
    /\ Args(hist) = <<ScenarioA, ScenarioB>> =>
            (/\ hist[1].ret = hist[2].ret
             /\ Len(stocks) = 1
             /\ stocks[hist[2].ret]["symbol_nse"] = FOO2)
    /\ Args(hist) = <<ScenarioA, ScenarioB, ScenarioC>> =>
            (/\ hist[1].ret \in DOMAIN stocks
             /\ hist[2].ret = hist[1].ret
             /\ hist[3].ret = hist[1].ret
             /\ Len(stocks) = 1
             /\ stocks[hist[1].ret]["isin"] = IN001
             /\ stocks[hist[1].ret]["symbol_nse"] = FOO2
             /\ stocks[hist[1].ret]["company_name"] = FooInc)

\* C4 witness: the session A, B, C has run.
C4_Witness ==
    Args(hist) = <<ScenarioA, ScenarioB, ScenarioC>>

----------------------------------------------------------------------------
(* The merge of attributes, checked under SpecFields *)

\* The value is absent, or blank once trimmed.
Absent(v) == v = None \/ \A k \in DOMAIN v : v[k] = " "

\* C6: an upsert that resolves to an existing entity never blanks a populated
\* field: an attribute whose candidate value is absent or blank keeps its
\* previous value, and a non-identity attribute supplied non-blank takes the
\* supplied (trimmed) value.
C6_MergeNeverBlanks ==
    [][(call'.op = "upsert_stock" /\ call'.ret \in DOMAIN stocks) =>
        \A c \in Columns :
            LET old == stocks[call'.ret][c]
                new == stocks'[call'.ret][c]
                v   == call'.arg[c]
            IN  /\ Absent(v) => new = old
                /\ (c \in InfoColumns /\ ~Absent(v)) => new = Strip(v)
                /\ Truthy(old) => Truthy(new)]_vars

\* C6 witness: the last call updated a row that is not the newest one; its
\* blank company name left the row's name in place and its status replaced
\* the row's status.
C6_Witness ==
    /\ call.op = "upsert_stock"
    /\ call.ret \in DOMAIN stocks
    /\ call.ret < Len(stocks)
    /\ call.arg["company_name"] = Blank
    /\ call.arg["status"] = Delisted
    /\ call.arg["nse_series"] = None
    /\ stocks[call.ret]["company_name"] = FooInc
    /\ stocks[call.ret]["nse_series"] = EQ
    /\ stocks[call.ret]["status"] = Delisted

----------------------------------------------------------------------------
(* The run ledger called directly, SpecLedger *)

\* An upper-cased source code, as a caller may pass it.
NSE_EQUITY_L == <<"N", "S", "E", "_", "E", "Q", "U", "I", "T", "Y", "_", "L">>

LedgerCodes == {SourceCode.nse, Pad(NSE_EQUITY_L), SourceCode.bse}

\* The keyword arguments of record_ingest_source: all defaults, and the
\* record a live feed writes after its loop.
LedgerFields(now) ==
    {[url |-> None, fetched_utc |-> None, http_status |-> None,
      content_sha256 |-> None, row_count |-> None, error |-> None],
     Provenance("nse", <<>>, utc_now_str(now), Integer(1))}

\* ingest_run_sources rows of one (run_id, source_code) pair.
SourceRows(d, run_id, source_code) ==
    {r \in d.sources : r.run_id = run_id /\ r.source_code = Lower(Strip(source_code))}

LedgerStart ==
    /\ Len(db.runs) < MaxRuns
    /\ \E r \in {StartIngestRun(db, None, None, clock)} :
        /\ db' = r.db
        /\ call' = [op |-> "start_ingest_run", arg |-> <<>>, ret |-> r.ret,
                    raised |-> NoError, again |-> FALSE]
    /\ UNCHANGED <<disk, files, net, clock, main, hist, fresh>>

\* One call record_ingest_source(conn, run_id=..., source_code=..., ...). The
\* foreign key on run_id refuses a row for a run that does not exist.
LedgerRecord(run_id, source_code, f) ==
    /\ db' = IF run_id \in DOMAIN db.runs
             THEN RecordIngestSource(db, run_id, source_code, f)
             ELSE db
    /\ call' = [op |-> "record_ingest_source",
                arg |-> [run_id |-> run_id, source_code |-> source_code, f |-> f],
                ret |-> NoId,
                raised |-> IF run_id \in DOMAIN db.runs THEN NoError ELSE IntegrityError,
                again |-> SourceRows(db, run_id, source_code) # {}]
    /\ UNCHANGED <<disk, files, net, clock, main, hist, fresh>>

NextLedger ==
    \/ LedgerStart
    \/ \E run_id \in 1..MaxRuns, source_code \in LedgerCodes, f \in LedgerFields(clock) :
        LedgerRecord(run_id, source_code, f)

SpecLedger == Init /\ [][NextLedger]_vars

\* C11: record_ingest_source keeps exactly one provenance row per (run id,
\* source code), the code compared after trimming and lower-casing: a call
\* for a pair not yet present adds exactly one row, a call for a pair already
\* present replaces the values of that row and the number of rows stays as
\* it was; the rows of every other pair are left alone.
C11_OneRowPerPair ==
    [][(call'.op = "record_ingest_source" /\ call'.raised = NoError) =>
        \E run_id \in {call'.arg.run_id}, source_code \in {call'.arg.source_code},
           f \in {call'.arg.f} :
            /\ SourceRows(db', run_id, source_code) =
                   {[run_id |-> run_id, source_code |-> Lower(Strip(source_code)),
                     url |-> f.url, fetched_utc |-> f.fetched_utc,
                     http_status |-> f.http_status, content_sha256 |-> f.content_sha256,
                     row_count |-> f.row_count, error |-> f.error]}
            /\ db'.sources \ SourceRows(db', run_id, source_code) =
                   db.sources \ SourceRows(db, run_id, source_code)
            /\ Cardinality(SourceRows(db, run_id, source_code)) <= 1
            /\ Cardinality(db'.sources) =
                   IF SourceRows(db, run_id, source_code) = {}
                   THEN Cardinality(db.sources) + 1
                   ELSE Cardinality(db.sources)]_vars

\* A second record for a pair, its code written in another case and padded,
\* has updated the row of the first.
C11_Witness ==
    /\ call.op = "record_ingest_source" /\ call.raised = NoError /\ call.again
    /\ call.arg.source_code = Pad(NSE_EQUITY_L)
    /\ call.arg.f.row_count = Integer(1)
    /\ Cardinality(db.sources) = 2

----------------------------------------------------------------------------
(* Orchestrated runs that are left to end, SpecRuns *)

\* The snapshot directory before the first run: empty, or holding an NSE
\* snapshot that cannot be decoded.
RunsFiles == {NoFiles, [NoFiles EXCEPT !.nse = Undecodable]}

InitRuns ==
    /\ db = EmptyDb
    /\ disk = EmptyDb
    /\ files \in RunsFiles
    /\ net \in {[nse |-> n, bse |-> b] : n \in MainNseFeeds, b \in MainBseFeeds}
    /\ clock = 1
    /\ main = Idle
    /\ call = NoCall
    /\ hist = <<>>
    /\ fresh = <<>>

\* The steps of main; the process is not killed.
NextRuns ==
    \/ \E a \in MainArgs, mapping \in BOOLEAN : MainStart(a[1], a[2], a[3], mapping)
    \/ MainOffline
    \/ \E source \in {"nse", "bse"} : SkipFeed(source) \/ FetchFeed(source)
    \/ FeedRow
    \/ FeedEnd
    \/ MainExcept
    \/ MainExport
    \/ MainFinish
    \/ Tick

SpecRuns == InitRuns /\ [][NextRuns]_vars

\* main has ended, by returning after finish_ingest_run or by raising; the
\* call record names the run it started and the error its try block raised.
Ended == main.pc = "idle" /\ call.op \in {"finish_ingest_run", "main"}

\* The ingest_runs row of a run is committed and closed with the status.
Closed(run_id, status) ==
    /\ run_id \in DOMAIN disk.runs
    /\ disk.runs[run_id].finished_utc # None
    /\ disk.runs[run_id].status = status

\* Position k of the text holds the note.
HasNote(notes, note) == notes # None /\ \E k \in DOMAIN notes : notes[k] = note

\* C12: when a live feed step of a run has raised (the download or the
\* parse), main ends with the run closed with status failed, with notes
\* that hold the failure reason and the note of the snapshot fallback.
C12_FeedFailureClosesRun ==
    (Ended /\ call.arg.error \in {DownloadError, CsvError}) =>
        /\ Closed(call.arg.run_id, Failed)
        /\ HasNote(disk.runs[call.arg.run_id].notes, <<"ingest failed", call.arg.error>>)
        /\ HasNote(disk.runs[call.arg.run_id].notes, <<"fallback rebuild from snapshots">>)

\* What does hold after a feed failure: the failed feed is not fetched
\* again in the run, and if the run reaches finish_ingest_run it is closed
\* as failed, after the rebuild from the snapshots, with both notes.
FeedFailureHandled ==
    /\ [][(main.pc = "except") => (main'.pc \in {"except", "export", "idle"})]_vars
    /\ [][(main.error # NoError /\ main.pc = "finish" /\ main'.pc = "idle") =>
            \E run_id \in {main.run_id} :
                /\ Closed(run_id, Failed)'
                /\ HasNote(disk'.runs[run_id].notes, <<"ingest failed", main.error>>)
                /\ HasNote(disk'.runs[run_id].notes, <<"fallback rebuild from snapshots">>)]_vars

\* C13: every ingestion run that is started is closed: when main has ended,
\* the row of the run it started is committed with a finish timestamp and
\* status success or failed, and no run row is left committed with status
\* running.
C13_EveryRunClosed ==
    /\ Ended => (Closed(call.arg.run_id, Success) \/ Closed(call.arg.run_id, Failed))
    /\ (main.pc = "idle") =>
           \A run_id \in DOMAIN disk.runs : disk.runs[run_id].status # Running

\* The feeds a run tried to fetch, read from its flags (the command column
\* holds --offline, --skip-nse, --skip-bse) and its provenance: NSE unless
\* skipped; BSE unless skipped, and only once NSE was skipped or completed,
\* which writes the NSE record with its row count.
Completed(d, run_id, source) ==
    \E r \in SourceRows(d, run_id, SourceCode[source]) : r.row_count # None

Tried(d, run_id, source) ==
    LET flags == d.runs[run_id].command
    IN  /\ ~flags[1]
        /\ IF source = "nse" THEN ~flags[2]
           ELSE ~flags[3] /\ (flags[2] \/ Completed(d, run_id, "nse"))

\* C14: when a run is closed, the ledger holds its run row and exactly one
\* provenance record for each feed the run tried to fetch; the record of a
\* feed that failed carries the error.
C14_OneRecordPerSource ==
    (call.op = "finish_ingest_run") =>
        /\ call.arg.run_id \in DOMAIN db.runs
        /\ \A source \in {"nse", "bse"} :
            Tried(db, call.arg.run_id, source) =>
                /\ Cardinality(SourceRows(db, call.arg.run_id, SourceCode[source])) = 1
                /\ \A r \in SourceRows(db, call.arg.run_id, SourceCode[source]) :
                       (r.row_count = None) => (r.error # None)

\* What does hold: a run closed as success has exactly one record, with a
\* row count and no error, for each feed its flags do not skip, and none
\* for the others; run rows are added one per call of main.
SuccessfulRunProvenance ==
    (call.op = "finish_ingest_run" /\ call.arg.status = Success) =>
        \A source \in {"nse", "bse"} :
            LET flags == db.runs[call.arg.run_id].command
                rows == SourceRows(db, call.arg.run_id, SourceCode[source])
            IN  IF ~flags[1] /\ ~(IF source = "nse" THEN flags[2] ELSE flags[3])
                THEN /\ Cardinality(rows) = 1
                     /\ \A r \in rows : r.row_count # None /\ r.error = None
                ELSE rows = {}

----------------------------------------------------------------------------
(* Snapshot exports of a populated store, SpecExport *)

\* Stocks whose sort key is the NSE symbol, the BSE symbol, the ISIN; the
\* last has the key of the first.
ExportStocks ==
    {StockUpsert(None, FOO, None, None), StockUpsert(None, None, BAR, None),
     StockUpsert(IN001, None, None, FooInc), StockUpsert(None, None, FOO, None)}

\* A stock and the universe it is made a member of.
ExportMembers ==
    {<<s, NSE_UNIVERSE_CODE>> : s \in ExportStocks}
    \cup {<<StockUpsert(None, FOO, None, None), BSE_UNIVERSE_CODE>>}

\* The store after ensure_universe, upsert_stock and
\* upsert_universe_membership for each member in turn.
RECURSIVE Populate(_, _, _)
Populate(d, members, k) ==
    IF k > Len(members) THEN d
    ELSE LET Member(u) ==
                 Populate(UpsertMember(u.db, members[k][1], u.ret, 1).db, members, k + 1)
         IN  Member(EnsureUniverse(d, members[k][2], None))

ExportStores == {Populate(EmptyDb, members, 1) : members \in SeqsUpTo(ExportMembers, MaxStocks)}

\* A universe code as a caller may write it.
NSE_EQ == <<"N", "S", "E", "_", "e", "q">>

ExportCodes == {Pad(NSE_EQ), BSE_UNIVERSE_CODE}

InitExport ==
    /\ db \in ExportStores
    /\ disk = EmptyDb
    /\ files \in {NoFiles, [NoFiles EXCEPT !.linesep = WindowsLineSep]}
    /\ net = NoNet
    /\ clock = 1
    /\ main = Idle
    /\ call = NoCall
    /\ hist = <<>>
    /\ fresh = <<>>

\* upsert_universe_membership(conn, ..., included=False) for a member.
StoreExclude(universe_id, stock_id) ==
    /\ \E m \in db.membership :
           m.universe_id = universe_id /\ m.stock_id = stock_id /\ m.included = 1
    /\ db' = UpsertUniverseMembership(db, universe_id, stock_id, FALSE, clock)
    /\ call' = [op |-> "upsert_universe_membership",
                arg |-> [universe_id |-> universe_id, stock_id |-> stock_id,
                         included |-> FALSE],
                ret |-> NoId, raised |-> NoError, again |-> TRUE]
    /\ UNCHANGED <<disk, files, net, clock, main, hist, fresh>>

\* One call export_universe_snapshot_csv(conn, universe_code=..., out_path=...),
\* to the file build_db names after the universe.  The log keeps the call,
\* the store it saw, what it returned and the file it left.
StoreExport(universe_code) ==
    /\ Len(hist) + 1 < MaxHist
    /\ \E out_path \in {IF Lower(Strip(universe_code)) = NSE_UNIVERSE_CODE
                        THEN "nse" ELSE "bse"} :
       \E r \in {ExportUniverseSnapshotCsv(db, files, universe_code, out_path, clock)} :
           /\ db' = r.db
           /\ files' = r.files
           /\ call' = [op |-> "export_universe_snapshot_csv",
                       arg |-> [universe_code |-> universe_code, out_path |-> out_path],
                       ret |-> r.ret, raised |-> NoError, again |-> FALSE]
           /\ hist' = Append(hist, [universe_code |-> universe_code, out_path |-> out_path,
                                    ret |-> r.ret, stocks |-> db.stocks,
                                    universes |-> db.universes,
                                    membership |-> db.membership,
                                    file |-> r.files[out_path]])
    /\ UNCHANGED <<disk, net, clock, main, fresh>>

NextExport ==
    \/ \E universe_id \in 1..2, stock_id \in 1..MaxStocks : StoreExclude(universe_id, stock_id)
    \/ \E universe_code \in ExportCodes : StoreExport(universe_code)

SpecExport == InitExport /\ [][NextExport]_vars

\* The export just logged, and whether its code names a universe.
Exported == Len(hist') = Len(hist) + 1
LastExport == hist[Len(hist)]
KnownCode(universes, universe_code) ==
    \E i \in DOMAIN universes : universes[i].universe_code = Lower(Strip(universe_code))

\* C15: export_universe_snapshot_csv with a universe code that does not
\* exist returns 0 and raises nothing, writes no file, appends no
\* ticker_snapshots row and leaves the rest of the store as it was.
C15_UnknownUniverse ==
    [][(Exported /\ ~KnownCode(db.universes, LastExport'.universe_code)) =>
          /\ LastExport'.ret = 0
          /\ call'.raised = NoError
          /\ files' = files
          /\ db' = db]_vars

\* An export of a code without universe, from a store that holds another
\* universe with a member and the snapshot file of an earlier export.
C15_Witness ==
    /\ Len(hist) = 2
    /\ ~KnownCode(db.universes, LastExport.universe_code)
    /\ LastExport.ret = 0
    /\ LastExport.file = NoFile
    /\ files.nse # NoFile
    /\ Len(db.snapshots) = 1
    /\ db.snapshots[1].row_count = Integer(1)

\* The data rows of a snapshot file: its lines but the header.
DataRows(file) == Cardinality({k \in DOMAIN file : file[k] = "\n"}) - 1

\* An export of an existing universe appends one ticker_snapshots row, with
\* the row count returned and written, and the hash of the file.
AppendsSnapshot ==
    \E out_path \in {LastExport'.out_path} :
        /\ Len(db'.snapshots) = Len(db.snapshots) + 1
        /\ SubSeq(db'.snapshots, 1, Len(db.snapshots)) = db.snapshots
        /\ db'.snapshots[Len(db'.snapshots)].row_count = Integer(LastExport'.ret)
        /\ LastExport'.ret = DataRows(files'[out_path])
        /\ db'.snapshots[Len(db'.snapshots)].content_sha256 = sha256_text(files'[out_path])

\* C16: each export of an existing universe appends exactly one new
\* ticker_snapshots row and leaves the earlier rows as they were; its row
\* count is the number of data rows written and the value returned, its
\* content hash the hash of the content of the file written.
C16_SnapshotRow ==
    [][(Exported /\ KnownCode(db.universes, LastExport'.universe_code)) => AppendsSnapshot]_vars

\* The same holds where os.linesep is "\n": there the bytes of the file are
\* the text that was hashed.
SnapshotRowOnPosix ==
    [][(Exported /\ KnownCode(db.universes, LastExport'.universe_code)
        /\ files.linesep = PosixLineSep) => AppendsSnapshot]_vars

\* The first non-empty of NSE symbol, BSE symbol, ISIN, company name.
FirstNonEmpty(row) ==
    IF Truthy(row.symbol_nse) THEN row.symbol_nse
    ELSE IF Truthy(row.symbol_bse) THEN row.symbol_bse
    ELSE IF Truthy(row.isin) THEN row.isin
    ELSE IF Truthy(row.company_name) THEN row.company_name
    ELSE None

\* The stocks a logged export had to write: those whose membership in the
\* universe of the code has included = 1.
MembersOf(e) ==
    {m.stock_id : m \in {x \in e.membership :
        /\ e.universes[x.universe_id].universe_code = Lower(Strip(e.universe_code))
        /\ x.included = 1}}

\* The ways to list the set ids once each, with keys that never descend.
AscendingOrders(rows, ids) ==
    {o \in [1..Cardinality(ids) -> ids] :
        /\ \A i, j \in DOMAIN o : i # j => o[i] # o[j]
        /\ \A i, j \in DOMAIN o :
               i < j => ~KeyLess(FirstNonEmpty(rows[o[j]]), FirstNonEmpty(rows[o[i]]))}

----------------------------------------------------------------------------
(* Universes and memberships called directly, SpecStore *)

StoreCodes == {NSE_UNIVERSE_CODE, Pad(NSE_EQ), BSE_UNIVERSE_CODE}

StoreStocks == {StockUpsert(None, FOO, None, None), StockUpsert(None, None, BAR, None)}

\* One call ensure_universe(conn, universe_code); the log keeps the code
\* and the id returned.
StoreEnsureUniverse(universe_code) ==
    /\ Len(hist) + 1 < MaxHist
    /\ \E r \in {EnsureUniverse(db, universe_code, None)} :
        /\ db' = r.db
        /\ call' = [op |-> "ensure_universe", arg |-> universe_code, ret |-> r.ret,
                    raised |-> NoError, again |-> FALSE]
        /\ hist' = Append(hist, [universe_code |-> universe_code, ret |-> r.ret])
    /\ UNCHANGED <<disk, files, net, clock, main, fresh>>

\* membership rows of one (universe_id, stock_id) pair.
MemberRows(d, universe_id, stock_id) ==
    {m \in d.membership : m.universe_id = universe_id /\ m.stock_id = stock_id}

\* One call upsert_universe_membership(conn, universe_id=..., stock_id=...,
\* included=...).  The foreign keys refuse a row for a universe or a stock
\* that does not exist.
StoreMembership(universe_id, stock_id, included) ==
    /\ \E ok \in {(universe_id \in DOMAIN db.universes) /\ (stock_id \in DOMAIN db.stocks)} :
        /\ db' = IF ok
                 THEN UpsertUniverseMembership(db, universe_id, stock_id, included, clock)
                 ELSE db
        /\ call' = [op |-> "upsert_universe_membership",
                    arg |-> [universe_id |-> universe_id, stock_id |-> stock_id,
                             included |-> included],
                    ret |-> NoId,
                    raised |-> IF ok THEN NoError ELSE IntegrityError,
                    again |-> MemberRows(db, universe_id, stock_id) # {}]
    /\ UNCHANGED <<disk, files, net, clock, main, hist, fresh>>

NextStore ==
    \/ \E universe_code \in StoreCodes : StoreEnsureUniverse(universe_code)
    \/ \E s \in StoreStocks : UpsertStock(s)
    \/ \E universe_id \in 1..2, stock_id \in 1..MaxStocks, included \in BOOLEAN :
           StoreMembership(universe_id, stock_id, included)

SpecStore == Init /\ [][NextStore]_vars

\* C18: ensure_universe is a get-or-create keyed on the trimmed,
\* lower-cased code: calls whose codes are equal after trimming and
\* lower-casing return the same universe id, the id of the one universes row
\* with that code.
C18_EnsureUniverseIdempotent ==
    /\ \A k \in DOMAIN hist :
        /\ hist[k].ret \in DOMAIN db.universes
        /\ {i \in DOMAIN db.universes :
               db.universes[i].universe_code = Lower(Strip(hist[k].universe_code))}
           = {hist[k].ret}
    /\ \A j, k \in DOMAIN hist :
           Lower(Strip(hist[j].universe_code)) = Lower(Strip(hist[k].universe_code))
               => hist[j].ret = hist[k].ret

\* Two calls with the code written in two ways returned the id of one row;
\* a universe with another code stands beside it.
C18_Witness ==
    /\ Len(hist) >= 2
    /\ hist[1].universe_code # hist[2].universe_code
    /\ hist[1].ret = hist[2].ret
    /\ call.op = "ensure_universe"
    /\ Cardinality({Lower(Strip(hist[k].universe_code)) : k \in DOMAIN hist}) = Len(db.universes)

\* C19: upsert_universe_membership keeps at most one membership row per
\* (universe id, stock id): after a call the pair has exactly one row, whose
\* included flag is the flag of the call, whether or not the pair had a row
\* before, and the rows of every other pair are as they were. So the flag
\* of a pair is always that of its most recent call.
C19_OneMembershipPerPair ==
    [][(call'.op = "upsert_universe_membership" /\ call'.raised = NoError) =>
        \E universe_id \in {call'.arg.universe_id}, stock_id \in {call'.arg.stock_id} :
            /\ Cardinality(MemberRows(db', universe_id, stock_id)) = 1
            /\ \A m \in MemberRows(db', universe_id, stock_id) :
                   m.included = (IF call'.arg.included THEN 1 ELSE 0)
            /\ Cardinality(MemberRows(db, universe_id, stock_id)) <= 1
            /\ db'.membership \ MemberRows(db', universe_id, stock_id) =
                   db.membership \ MemberRows(db, universe_id, stock_id)]_vars

\* A call with included=False for a pair that had a row: the row now holds
\* 0, and the row of another pair still holds 1.
C19_Witness ==
    /\ call.op = "upsert_universe_membership" /\ call.raised = NoError /\ call.again
    /\ ~call.arg.included
    /\ \A m \in MemberRows(db, call.arg.universe_id, call.arg.stock_id) : m.included = 0
    /\ Cardinality(db.membership) = 2
    /\ \E m \in db.membership : m.included = 1

----------------------------------------------------------------------------
(* The taxonomy seeder, SpecTaxonomy *)

\* SELECT sector_id FROM sectors WHERE sector_name = ?
SectorIdsWhere(sectors, sector_name) ==
    {i \in DOMAIN sectors : sectors[i].sector_name = sector_name}

\* ensure_sector that inserts without looking.
EnsureSector_AlwaysInserts(d, sector_name) ==
    [db |-> [d EXCEPT !.sectors = Append(@, [sector_name |-> Strip(sector_name)])],
     ret |-> Len(d.sectors) + 1]

\* ensure_sector: get or create by the trimmed name.
EnsureSector(d, sector_name) ==
    LET Get(ids) ==
            IF ids # {}
            THEN [db |-> d, ret |-> FetchOne(ids)]
            ELSE [db |-> [d EXCEPT !.sectors = Append(@, [sector_name |-> Strip(sector_name)])],
                  ret |-> Len(d.sectors) + 1]
    IN  Get(SectorIdsWhere(d.sectors, Strip(sector_name)))

\* SELECT subsector_id FROM subsectors WHERE sector_id = ? AND subsector_name = ?
SubsectorIdsWhere(subsectors, sector_id, subsector_name) ==
    {i \in DOMAIN subsectors :
        subsectors[i].sector_id = sector_id /\ subsectors[i].subsector_name = subsector_name}

\* ensure_subsector: get or create by the sector and the trimmed name.
EnsureSubsector(d, sector_id, subsector_name) ==
    LET Get(ids) ==
            IF ids # {}
            THEN [db |-> d, ret |-> FetchOne(ids)]
            ELSE [db |-> [d EXCEPT !.subsectors =
                            Append(@, [sector_id |-> sector_id,
                                       subsector_name |-> Strip(subsector_name)])],
                  ret |-> Len(d.subsectors) + 1]
    IN  Get(SubsectorIdsWhere(d.subsectors, sector_id, Strip(subsector_name)))

\* for sub in subsectors or []: ensure_subsector(conn, sector_id, sub)
RECURSIVE SeedSubsectors(_, _, _, _)
SeedSubsectors(d, sector_id, subsectors, k) ==
    IF subsectors = None \/ k > Len(subsectors) THEN d
    ELSE SeedSubsectors(EnsureSubsector(d, sector_id, subsectors[k]).db,
                        sector_id, subsectors, k + 1)

\* seed_taxonomy_from_json, up to its commit: sectors is the "sectors"
\* object of the document, as the list of its items.
RECURSIVE SeedTaxonomy(_, _, _)
SeedTaxonomy(d, sectors, k) ==
    IF k > Len(sectors) THEN d
    ELSE LET Subsectors(r) ==
                 SeedTaxonomy(SeedSubsectors(r.db, r.ret, sectors[k].subsectors, 1),
                              sectors, k + 1)
         IN  Subsectors(EnsureSector(d, sectors[k].sector_name))

Technology == <<"T", "e", "c", "h", "n", "o", "l", "o", "g", "y">>
Software == <<"S", "o", "f", "t", "w", "a", "r", "e">>
Finance == <<"F", "i", "n", "a", "n", "c", "e">>
Banks == <<"B", "a", "n", "k", "s">>

\* Taxonomy documents: no sector; the sector Technology with Software; a
\* padded name, a subsector named twice, a sector without subsectors; a
\* sector whose subsectors are null.
TaxonomyDocs ==
    {<<>>,
     <<[sector_name |-> Technology, subsectors |-> <<Software>>]>>,
     <<[sector_name |-> Pad(Technology), subsectors |-> <<Software, Pad(Software)>>],
       [sector_name |-> Finance, subsectors |-> <<>>]>>,
     <<[sector_name |-> Finance, subsectors |-> <<Banks, Software>>],
       [sector_name |-> Technology, subsectors |-> None]>>}

\* One call seed_taxonomy_from_json(conn, path), with its commit.
Seed(sectors) ==
    /\ \E d \in {SeedTaxonomy(db, sectors, 1)} :
        /\ db' = d
        /\ disk' = d
    /\ call' = [op |-> "seed_taxonomy_from_json", arg |-> sectors, ret |-> NoId,
                raised |-> NoError, again |-> (call.op = "seed_taxonomy_from_json"
                                               /\ call.arg = sectors)]
    /\ UNCHANGED <<files, net, clock, main, hist, fresh>>

\* One call ensure_sector(conn, sector_name).
StoreEnsureSector(sector_name) ==
    /\ \E r \in {EnsureSector(db, sector_name)} :
        /\ db' = r.db
        /\ call' = [op |-> "ensure_sector", arg |-> sector_name, ret |-> r.ret,
                    raised |-> NoError, again |-> FALSE]
    /\ UNCHANGED <<disk, files, net, clock, main, hist, fresh>>

\* One call ensure_subsector(conn, sector_id, subsector_name); the foreign
\* key refuses a new row for a sector that does not exist.
StoreEnsureSubsector(sector_id, subsector_name) ==
    /\ \E r \in {EnsureSubsector(db, sector_id, subsector_name)} :
        /\ db' = IF sector_id \in DOMAIN db.sectors THEN r.db ELSE db
        /\ call' = [op |-> "ensure_subsector",
                    arg |-> [sector_id |-> sector_id, subsector_name |-> subsector_name],
                    ret |-> IF sector_id \in DOMAIN db.sectors THEN r.ret ELSE NoId,
                    raised |-> IF sector_id \in DOMAIN db.sectors
                               THEN NoError ELSE IntegrityError,
                    again |-> FALSE]
    /\ UNCHANGED <<disk, files, net, clock, main, hist, fresh>>

NextTaxonomy ==
    \/ \E sectors \in TaxonomyDocs : Seed(sectors)
    \/ \E sector_name \in {Technology, Finance} : StoreEnsureSector(sector_name)
    \/ \E sector_id \in 1..2, subsector_name \in {Software, Banks} :
           StoreEnsureSubsector(sector_id, subsector_name)

SpecTaxonomy == Init /\ [][NextTaxonomy]_vars

\* The sector rows with the name, and the subsector rows with the name
\* under those sectors.
SectorsNamed(d, sector_name) == SectorIdsWhere(d.sectors, Strip(sector_name))
SubsectorsNamed(d, sector_name, subsector_name) ==
    {i \in DOMAIN d.subsectors :
        /\ d.subsectors[i].sector_id \in SectorsNamed(d, sector_name)
        /\ d.subsectors[i].subsector_name = Strip(subsector_name)}

\* C20: seeding the taxonomy is idempotent: after a document is seeded there
\* is exactly one sectors row for each of its sector names and exactly one
\* subsectors row for each of its (sector, subsector name) pairs, and seeding
\* the document again leaves every row, with its id, as it is.
C20_SeedIdempotent ==
    [][(call'.op = "seed_taxonomy_from_json") =>
        \E sectors \in {call'.arg} :
            /\ \A k \in DOMAIN sectors :
                /\ Cardinality(SectorsNamed(db', sectors[k].sector_name)) = 1
                /\ sectors[k].subsectors # None =>
                       \A j \in DOMAIN sectors[k].subsectors :
                           Cardinality(SubsectorsNamed(db', sectors[k].sector_name,
                                                       sectors[k].subsectors[j])) = 1
            /\ SeedTaxonomy(db', sectors, 1) = db'
            /\ call'.again => db' = db]_vars

\* The document with two sectors was seeded twice in a row, into a store
\* that held a subsector of another document.
C20_Witness ==
    /\ call.op = "seed_taxonomy_from_json" /\ call.again
    /\ Len(call.arg) = 2
    /\ Len(db.sectors) = 2
    /\ Len(db.subsectors) = 3
    /\ disk = db

----------------------------------------------------------------------------
(* Runs closed by direct calls, SpecClose *)

\* The notes a caller may pass to finish_ingest_run: the default, or a text.
CloseNotes == {None, <<"d", "o", "n", "e">>}

\* One call finish_ingest_run(conn, run_id=..., status=..., notes=...); the
\* UPDATE selects the row by run_id alone.
LedgerFinish(run_id, status, notes) ==
    /\ db' = FinishIngestRun(db, run_id, status, notes, clock)
    /\ call' = [op |-> "finish_ingest_run",
                arg |-> [run_id |-> run_id, status |-> status, notes |-> notes],
                ret |-> NoId, raised |-> NoError,
                again |-> (run_id \in DOMAIN db.runs /\ db.runs[run_id].status # Running)]
    /\ UNCHANGED <<disk, files, net, clock, main, hist, fresh>>

NextClose ==
    \/ LedgerStart
    \/ \E run_id \in 1..MaxRuns, status \in {Success, Failed}, notes \in CloseNotes :
        LedgerFinish(run_id, status, notes)
    \/ Tick

\* Sessions of start_ingest_run and finish_ingest_run calls, the clock
\* advancing between them.
SpecClose == Init /\ [][NextClose]_vars

\* C21: a run is closed exactly once: once the status of a run is success
\* or failed, no later operation changes its status, its finish timestamp
\* or its notes (finish_ingest_run takes effect on a running run only).
C21_ClosedOnce ==
    [][\A run_id \in DOMAIN db.runs :
        (db.runs[run_id].status \in {Success, Failed}) =>
            /\ db'.runs[run_id].status = db.runs[run_id].status
            /\ db'.runs[run_id].finished_utc = db.runs[run_id].finished_utc
            /\ db'.runs[run_id].notes = db.runs[run_id].notes]_vars

\* What does hold: main calls finish_ingest_run once, on the run it started,
\* so the runs of the script keep the status, finish timestamp and notes
\* they were closed with, whatever runs follow.
ClosedOnceByMain ==
    [][\A run_id \in DOMAIN disk.runs :
        (disk.runs[run_id].status \in {Success, Failed}) =>
            /\ run_id \in DOMAIN db'.runs
            /\ db'.runs[run_id] = disk.runs[run_id]
            /\ disk'.runs[run_id] = disk.runs[run_id]]_vars

----------------------------------------------------------------------------
(* Offline rebuilds from snapshot files, SpecImport *)

\* Rows of a snapshot file: one with an NSE symbol, one with an ISIN and a
\* name, and rows with none of the keys the importer of the NSE file reads:
\* a name only, a BSE symbol only, nothing.
ImportStocks ==
    {StockUpsert(None, FOO, None, None), StockUpsert(IN001, None, None, FooInc),
     StockUpsert(None, None, None, FooInc), StockUpsert(None, None, BAR, None),
     StockUpsert(None, None, None, None)}

\* The lines of those rows as the exporter writes them, and a line that
\* holds one blank field and misses the other columns.
ImportLines == {SnapshotLine(s) : s \in ImportStocks} \cup {<<" ", "\n">>}

\* The snapshot directory before the first run: nse_eq.csv is missing or
\* holds the header and up to MaxStocks lines; bse_eq.csv is missing or
\* holds a row with a BSE symbol and a row with none of the keys the
\* importer of the BSE file reads.
ImportFiles ==
    {[nse |-> n, bse |-> b, linesep |-> PosixLineSep] :
        n \in {NoFile} \cup {header \o Join(ls, <<>>) : ls \in SeqsUpTo(ImportLines, MaxStocks)},
        b \in {NoFile,
               header \o SnapshotLine(StockUpsert(None, None, BAR, None))
                      \o SnapshotLine(StockUpsert(None, FOO, None, BarLtd))}}

InitImport ==
    /\ db = EmptyDb
    /\ disk = EmptyDb
    /\ files \in ImportFiles
    /\ net = NoNet
    /\ clock = 1
    /\ main = Idle
    /\ call = NoCall
    /\ hist = <<>>
    /\ fresh = <<>>

\* Runs of main --offline.
NextImport ==
    \/ \E mapping \in BOOLEAN : MainStart(TRUE, FALSE, FALSE, mapping)
    \/ MainOffline
    \/ MainExport
    \/ MainFinish

SpecImport == InitImport /\ [][NextImport]_vars

\* C22: the snapshot importer skips rows with no usable key: no Stock row,
\* and so no membership row, comes from a snapshot row whose symbol and ISIN
\* are blank or missing.  The store starts empty and only the importer
\* writes to it, so every Stock row holds a key.
C22_KeylessRowsSkipped ==
    /\ \A i \in DOMAIN db.stocks : \E c \in KeyColumns : Truthy(db.stocks[i][c])
    /\ \A m \in db.membership : \E c \in KeyColumns : Truthy(db.stocks[m.stock_id][c])

----------------------------------------------------------------------------
(* Runs on feeds that change between runs, SpecGrow *)

\* The exchange publishes a new NSE list while the script is not running: a
\* feed of SpecMain, or a list that holds no row.
Publish(nse) ==
    /\ main.pc = "idle"
    /\ net.nse # nse
    /\ net' = [net EXCEPT !.nse = nse]
    /\ UNCHANGED <<db, disk, files, clock, main, call, hist, fresh>>

NextGrow ==
    \/ \E a \in MainArgs : MainStart(a[1], a[2], a[3], FALSE)
    \/ MainOffline
    \/ \E source \in {"nse", "bse"} : SkipFeed(source) \/ FetchFeed(source)
    \/ FeedRow
    \/ FeedEnd
    \/ MainExcept
    \/ MainExport
    \/ MainFinish
    \/ Kill
    \/ \E nse \in MainNseFeeds \cup {Served(<<>>)} : Publish(nse)

SpecGrow == InitMain /\ [][NextGrow]_vars

\* The (universe, stock) pairs with included = 1.
IncludedPairs(d) ==
    {<<m.universe_id, m.stock_id>> : m \in {x \in d.membership : x.included = 1}}

\* C23: ingestion never retracts a membership or deletes a stock: across
\* the runs of the script (live, offline or fallback, completed or not), the
\* stock ids and the included (universe, stock) pairs of the committed store
\* only grow, and a stock row keeps its id.
C23_OnlyGrows ==
    [][/\ DOMAIN disk.stocks \subseteq DOMAIN disk'.stocks
       /\ IncludedPairs(disk) \subseteq IncludedPairs(disk')]_vars

\* A live run over an NSE list with no row has been closed as success, with
\* a row count of 0, and the stock FOO of the earlier feed is still an
\* included member of the NSE universe.
C23_Witness ==
    /\ call.op = "finish_ingest_run" /\ call.arg.status = Success
    /\ main.pc = "idle"
    /\ \E r \in SourceRows(disk, call.arg.run_id, SourceCode.nse) : r.row_count = Integer(0)
    /\ \E i \in DOMAIN disk.stocks :
        /\ disk.stocks[i].symbol_nse = FOO
        /\ \E u \in UniverseIdsWhere(disk.universes, NSE_UNIVERSE_CODE) :
               <<u, i>> \in IncludedPairs(disk)

----------------------------------------------------------------------------
(* Live runs on feeds with rows the loops skip, SpecFeeds *)

\* Both feeds are served and well formed.  The NSE list holds rows with a
\* symbol and series EQ, a row with no symbol and a row of series BE; the
\* BSE master holds rows with a security id, with an ISIN only, and with
\* neither.
InitFeeds ==
    /\ db = EmptyDb
    /\ disk = EmptyDb
    /\ files = NoFiles
    /\ net \in {[nse |-> Served(n), bse |-> Served(b)] :
                    n \in {<<>>,
                           <<NseRow(FOO, IN001, EQ), NseRow(FOO2, <<>>, EQ)>>,
                           <<NseRow(<<>>, IN002, EQ), NseRow(FOO, IN001, EQ)>>,
                           <<NseRow(FOO, IN001, EQ), NseRow(FOO2, <<>>, BE)>>},
                    b \in {<<>>,
                           <<BseRow(<<>>, <<>>, Active), BseRow(BAR, <<>>, Active)>>,
                           <<BseRow(<<>>, IN001, Active), BseRow(Blank, Blank, Active)>>}}
    /\ clock = 1
    /\ main = Idle
    /\ call = NoCall
    /\ hist = <<>>
    /\ fresh = <<>>

\* Time passes while a feed is being read.
LoopTick ==
    /\ clock < MaxClock
    /\ main.pc = "rows"
    /\ clock' = clock + 1
    /\ UNCHANGED <<db, disk, files, net, main, call, hist, fresh>>

NextFeeds ==
    \/ \E skip_nse, skip_bse \in BOOLEAN : MainStart(FALSE, skip_nse, skip_bse, FALSE)
    \/ \E source \in {"nse", "bse"} : SkipFeed(source) \/ FetchFeed(source)
    \/ FeedRow
    \/ LoopTick
    \/ FeedEnd
    \/ MainExport
    \/ MainFinish

SpecFeeds == InitFeeds /\ [][NextFeeds]_vars

\* The rows of a feed its loop passes to upsert_stock.
Passed(source, rows) ==
    Cardinality({k \in DOMAIN rows :
                    ~(IF source = "nse" THEN NseSkips(rows[k]) ELSE BseSkips(rows[k]))})

\* C24: a live feed fetched and parsed without failure writes its
\* provenance row twice in the run: when the feed has been fetched the pair
\* (run, source) has one row, with row_count null; when its loop has ended
\* the row is overwritten, with the same URL, fetch time and content hash,
\* and a row_count that is the number of feed rows passed to upsert_stock
\* (the rows skipped for a missing key or a series other than EQ are not
\* counted); that row_count is the one the closed run is committed with.
C24_ProvenanceTwice ==
    [][/\ (main.pc \in {"nse", "bse"} /\ main'.pc = "rows") =>
            \E r \in SourceRows(db', main.run_id, SourceCode[main'.source]) :
                /\ SourceRows(db', main.run_id, SourceCode[main'.source]) = {r}
                /\ r.row_count = None
                /\ r.fetched_utc = utc_now_str(clock)
       /\ (main.pc = "rows" /\ main'.pc \in {"bse", "export"}) =>
            \E r \in SourceRows(db, main.run_id, SourceCode[main.source]) :
            \E w \in SourceRows(db', main.run_id, SourceCode[main.source]) :
                /\ SourceRows(db, main.run_id, SourceCode[main.source]) = {r}
                /\ SourceRows(db', main.run_id, SourceCode[main.source]) = {w}
                /\ r.row_count = None
                /\ w.row_count = Integer(Passed(main.source, net[main.source].rows))
                /\ w.url = r.url /\ w.url = SourceUrl[main.source]
                /\ w.fetched_utc = r.fetched_utc /\ w.fetched_utc # None
                /\ w.content_sha256 = r.content_sha256
                /\ w.content_sha256 = sha256_text(net[main.source])
       /\ (main.pc = "finish" /\ main'.pc = "idle") =>
            \A source \in {"nse", "bse"} :
                \A w \in SourceRows(disk', main.run_id, SourceCode[source]) :
                    w.row_count = Integer(Passed(source, net[source].rows))]_vars

\* A run has been closed whose NSE list held a row that was passed on and
\* a row that was skipped, the clock having advanced during the loop, and
\* whose BSE master held a row with neither key.
C24_Witness ==
    /\ call.op = "finish_ingest_run" /\ main.pc = "idle"
    /\ Len(net.nse.rows) = 2 /\ Passed("nse", net.nse.rows) = 1
    /\ Len(net.bse.rows) = 2 /\ Passed("bse", net.bse.rows) = 1
    /\ \E w \in SourceRows(disk, call.arg.run_id, SourceCode.nse) :
           w.row_count = Integer(1) /\ w.fetched_utc # disk.runs[call.arg.run_id].finished_utc
    /\ \E w \in SourceRows(disk, call.arg.run_id, SourceCode.bse) : w.row_count = Integer(1)

----------------------------------------------------------------------------
(* Candidates without an identifying key, SpecBare *)

\* Candidates whose three keys are absent, empty or blank, with every
\* profile of the other fields.
BareCandidates ==
    {[isin |-> k[1], symbol_nse |-> k[2], symbol_bse |-> k[3],
      company_name |-> p[1], nse_series |-> p[2],
      bse_scrip_code |-> p[3], status |-> p[4]] :
        k \in {<<None, None, None>>, <<Blank, <<>>, None>>, <<<<>>, Blank, Blank>>},
        p \in InfoProfiles}

NextBare ==
    \E s \in BareCandidates \cup ScenarioCandidates : UpsertStock(s)

\* Sessions of upsert_stock calls with and without identifying keys.
SpecBare == Init /\ [][NextBare]_vars

\* C25: a candidate whose ISIN, NSE symbol and BSE symbol are all absent or
\* blank is never rejected by upsert_stock: the call raises nothing and
\* inserts one new Stock row under a fresh id, which holds no key and the
\* trimmed other fields of the candidate; the rows there were are unchanged.
C25_BareCandidateInserted ==
    [][(call'.op = "upsert_stock" /\ ~HasKey(call'.arg)) =>
        /\ call'.raised = NoError
        /\ call'.ret = Len(stocks) + 1
        /\ Len(stocks') = Len(stocks) + 1
        /\ \A i \in DOMAIN stocks : stocks'[i] = stocks[i]
        /\ \A c \in KeyColumns : stocks'[call'.ret][c] = None
        /\ \A c \in InfoColumns :
            stocks'[call'.ret][c] =
                IF Absent(call'.arg[c]) THEN None ELSE Strip(call'.arg[c])]_vars

\* The same candidate with blank keys and a padded company name has been
\* upserted twice in a row, and the second call made the second row.
C25_Witness ==
    /\ call.op = "upsert_stock" /\ call.again
    /\ ~HasKey(call.arg)
    /\ call.arg["isin"] = <<>> /\ call.arg["symbol_bse"] = Blank
    /\ call.arg["company_name"] = Pad(BarLtd)
    /\ call.ret = 2 /\ Len(stocks) = 2
    /\ stocks[1]["company_name"] = BarLtd /\ stocks[2]["company_name"] = BarLtd

----------------------------------------------------------------------------
(* upsert_stock on a store whose other tables hold rows, SpecFrame *)

\* A populated store with a run, a provenance record of the run, and the
\* snapshot row of an export of the NSE universe.
InitFrame ==
    /\ db \in {ExportUniverseSnapshotCsv(
                   RecordIngestSource(StartIngestRun(d, None, None, 1).db, 1, SourceCode.nse,
                                      Provenance("nse", <<>>, utc_now_str(1), Integer(1))),
                   NoFiles, NSE_UNIVERSE_CODE, "nse", 1).db : d \in ExportStores}
    /\ disk = EmptyDb
    /\ files = NoFiles
    /\ net = NoNet
    /\ clock = 1
    /\ main = Idle
    /\ call = NoCall
    /\ hist = <<>>
    /\ fresh = <<>>

NextFrame ==
    \/ \E s \in ScenarioCandidates : UpsertStock(s)
    \/ Tick

SpecFrame == InitFrame /\ [][NextFrame]_vars

\* C26: upsert_stock changes at most one Stock row: every row other than
\* the one whose id it returns is unchanged (all the rows there were, on the
\* insert path) and at most one row is added; no universe, membership,
\* ledger, snapshot or taxonomy row is touched, and nothing is committed or
\* written to the snapshot directory.  A row that owns a key the call
\* dropped is such an other row.
C26_OneRowChanges ==
    [][call'.op = "upsert_stock" =>
        /\ \A i \in DOMAIN stocks : i # call'.ret => stocks'[i] = stocks[i]
        /\ DOMAIN stocks' \ DOMAIN stocks \subseteq {call'.ret}
        /\ DOMAIN stocks \subseteq DOMAIN stocks'
        /\ call'.ret \notin DOMAIN stocks => \A i \in DOMAIN stocks : stocks'[i] = stocks[i]
        /\ [db' EXCEPT !.stocks = <<>>] = [db EXCEPT !.stocks = <<>>]
        /\ disk' = disk
        /\ files' = files]_vars

\* The last call returned the row that holds its ISIN and updated it at a
\* later time, while another row owns its NSE symbol; the other tables hold
\* rows.
C26_Witness ==
    /\ call.op = "upsert_stock"
    /\ call.ret \in Owners(stocks, "isin", Norm(call.arg["isin"]))
    /\ Owners(stocks, "symbol_nse", Norm(call.arg["symbol_nse"])) \ {call.ret} # {}
    /\ stocks[call.ret]["updated_utc"] > 1
    /\ \E i \in DOMAIN stocks : stocks[i]["updated_utc"] = 1
    /\ db.membership # {} /\ db.sources # {} /\ db.snapshots # <<>> /\ db.runs # <<>>

----------------------------------------------------------------------------
(* Ownership of the supplied keys, checked under Spec *)

\* C27: after upsert_stock has returned id e for a candidate with at least
\* one non-blank identifying key, every non-blank key of the candidate,
\* trimmed, is held by exactly one row of the store, and row e holds at
\* least one of them.
C27_SuppliedKeysOwned ==
    (call.op = "upsert_stock" /\ HasKey(call.arg)) =>
        LET n == NormAll(call.arg)
        IN  /\ call.ret \in DOMAIN stocks
            /\ \A c \in KeyColumns :
                Truthy(n[c]) => Cardinality(Owners(stocks, c, n[c])) = 1
            /\ \E c \in KeyColumns : call.ret \in Owners(stocks, c, n[c])

\* The last call supplied three keys: the row it returned holds its ISIN
\* and its BSE symbol, and the other row holds its NSE symbol.
C27_Witness ==
    /\ call.op = "upsert_stock"
    /\ \A c \in KeyColumns : Truthy(Norm(call.arg[c]))
    /\ Owners(stocks, "isin", Norm(call.arg["isin"])) = {call.ret}
    /\ Owners(stocks, "symbol_bse", Norm(call.arg["symbol_bse"])) = {call.ret}
    /\ Owners(stocks, "symbol_nse", Norm(call.arg["symbol_nse"])) \ {call.ret} # {}

----------------------------------------------------------------------------
(* Logged provenance records, SpecReplace *)

\* One call record_ingest_source(conn, ...), as LedgerRecord; the log keeps
\* the arguments and the fields the row of the pair held before the call.
LoggedRecord(run_id, source_code, f) ==
    /\ Len(hist) + 1 < MaxHist
    /\ db' = IF run_id \in DOMAIN db.runs
             THEN RecordIngestSource(db, run_id, source_code, f)
             ELSE db
    /\ call' = [op |-> "record_ingest_source",
                arg |-> [run_id |-> run_id, source_code |-> source_code, f |-> f],
                ret |-> NoId,
                raised |-> IF run_id \in DOMAIN db.runs THEN NoError ELSE IntegrityError,
                again |-> SourceRows(db, run_id, source_code) # {}]
    /\ hist' = Append(hist, [run_id |-> run_id, source_code |-> source_code, f |-> f,
                             before |-> {[c \in DOMAIN f |-> r[c]] :
                                            r \in SourceRows(db, run_id, source_code)}])
    /\ UNCHANGED <<disk, files, net, clock, main, fresh>>

\* Calls with all the fields omitted, with the fields a live feed records,
\* and with an error text only.
NextReplace ==
    \/ LedgerStart
    \/ \E run_id \in 1..MaxRuns, source_code \in {SourceCode.nse, Pad(NSE_EQUITY_L)},
          f \in LedgerFields(clock)
                \cup {[url |-> None, fetched_utc |-> None, http_status |-> None,
                       content_sha256 |-> None, row_count |-> None,
                       error |-> <<"t", "i", "m", "e", "o", "u", "t">>]} :
        LoggedRecord(run_id, source_code, f)

SpecReplace == Init /\ [][NextReplace]_vars

\* C28: record_ingest_source replaces, it does not merge: after a repeat
\* call for a (run, source) pair that had a row, every field of the row
\* (URL, fetch time, HTTP status, content hash, row count, error) is the
\* value of that call, so a field the call omitted is empty whatever the
\* row held before.
C28_ReplacesNotMerges ==
    (hist # <<>> /\ call.raised = NoError /\ hist[Len(hist)].before # {}) =>
        \E e \in {hist[Len(hist)]} :
            \A r \in SourceRows(db, e.run_id, e.source_code) :
                \A c \in DOMAIN e.f : r[c] = e.f[c]

\* The row of a pair held the record of a live feed; a call for the pair,
\* its code written in another case, omitted every field, and the row
\* holds none.
C28_Witness ==
    /\ hist # <<>> /\ call.raised = NoError
    /\ \E e \in {hist[Len(hist)]} :
        /\ e.source_code = Pad(NSE_EQUITY_L)
        /\ \E b \in e.before : b.row_count = Integer(1)
        /\ \A c \in DOMAIN e.f : e.f[c] = None
        /\ \E r \in SourceRows(db, e.run_id, e.source_code) : r.row_count = None /\ r.error = None

----------------------------------------------------------------------------
(* The order of the feeds, checked under SpecGrow *)

\* The NSE feed of the run in progress has raised: the run is live, does
\* not skip NSE, has caught an error, and NSE has no record with a row count.
NseFailed ==
    /\ main.pc # "idle"
    /\ ~main.offline /\ ~main.skip_nse
    /\ main.error # NoError
    /\ ~Completed(db, main.run_id, "nse")

\* C29: in a live run the feeds are processed in the order NSE, BSE: the
\* run starts at NSE, and BSE is reached from NSE only, skipped or
\* completed.  A failure of the NSE feed ends the live ingestion of the run:
\* control is in the exception handler, BSE is not fetched and no BSE
\* provenance row is written in the run; the handler goes directly to the
\* rebuild from the snapshots, which is ingest_from_snapshots over the
\* files of both universes.
C29_NseThenBse ==
    /\ [](NseFailed => (/\ main.pc \in {"except", "export", "finish"}
                        /\ SourceRows(db, main.run_id, SourceCode.bse) = {}))
    /\ [][/\ (main.pc = "idle" /\ main'.pc # "idle" /\ ~main'.offline) => main'.pc = "nse"
          /\ (main.pc # "bse" /\ main'.pc = "bse") =>
                (\/ main.pc = "nse" /\ main.skip_nse
                 \/ main.pc = "rows" /\ main.source = "nse" /\ Completed(db', main.run_id, "nse"))
          /\ (main.pc = "bse") => (main.error = NoError /\ ~NseFailed')
          /\ (~NseFailed /\ NseFailed') => main'.pc = "except"
          /\ (main.pc = "except" /\ main'.pc # "idle") =>
                (/\ main'.pc = "export"
                 /\ db' = IngestFromSnapshots(db, files, clock).db
                 /\ disk' = db')]_vars

\* The second run of the script, live with no feed skipped, has been closed
\* as failed after its NSE feed raised: it has no BSE provenance row, while
\* the first run has one, and its fallback rebuilt both universes from the
\* snapshots the first run exported.
C29_Witness ==
    /\ call.op = "finish_ingest_run" /\ main.pc = "idle"
    /\ call.arg.run_id = 2 /\ call.arg.status = Failed
    /\ call.arg.error \in {DownloadError, CsvError}
    /\ disk.runs[2].command = <<FALSE, FALSE, FALSE>>
    /\ ~Completed(disk, 2, "nse")
    /\ SourceRows(disk, 2, SourceCode.bse) = {}
    /\ Completed(disk, 1, "bse")
    /\ files.nse # NoFile /\ files.bse # NoFile
    /\ HasNote(call.arg.notes, <<"fallback rebuild from snapshots">>)
    /\ HasNote(call.arg.notes, <<"snapshot export", 1, 1>>)

----------------------------------------------------------------------------
(* Offline runs, checked under SpecRuns *)

\* The rows of a universe and of its members.
UniverseRows(d, universe_code) ==
    LET ids == UniverseIdsWhere(d.universes, universe_code)
    IN  <<ids, {m \in d.membership : m.universe_id \in ids}>>

\* C30: an offline run never fetches a live feed (control never reaches a
\* feed) and writes no provenance record; its rebuild imports only the
\* snapshot files that exist (the universe of a missing file is neither
\* created nor changed); and when main ends the run is closed, committed,
\* with status success, also when no snapshot file exists and no stock was
\* imported.
C30_OfflineRun ==
    [][\E run_id \in {main.run_id} :
        /\ (main'.pc # "idle" /\ main'.offline) =>
                main'.pc \in {"offline", "except", "export", "finish"}
        /\ (main.pc # "idle" /\ main.offline) =>
                {r \in db'.sources : r.run_id = run_id} = {}
        /\ (main.pc = "offline") =>
                \A source \in {"nse", "bse"} :
                    (files[source] = NoFile) =>
                        UniverseRows(db', UniverseCode[source]) =
                            UniverseRows(db, UniverseCode[source])
        /\ (main.pc # "idle" /\ main.offline /\ main'.pc = "idle") =>
                /\ run_id \in DOMAIN disk'.runs
                /\ disk'.runs[run_id].finished_utc # None
                /\ disk'.runs[run_id].status = Success
                /\ {r \in disk'.sources : r.run_id = run_id} = {}]_vars

====
